---- MODULE Spec2Model ----
(***************************************************************************)
(* Metadata discovery and query normalisation of the Salesforce workbench: *)
(*   SalesforceClient.list_metadata          (authentication/salesforce_client.py) *)
(*   SalesforceClient.fetch_metadata_detail  (authentication/salesforce_client.py) *)
(*   flatten_record                          (query/views.py)              *)
(* Every network call is one step whose outcome the transport chooses.     *)
(***************************************************************************)
EXTENDS Integers, Sequences, FiniteSets, TLC

VARIABLES pc, lm, fd, fr, nid, dv, mw, registry, calls

vars == <<pc, lm, fd, fr, nid, dv, mw, registry, calls>>

-----------------------------------------------------------------------------
(* Bounds of the model *)

\* longest chain of result pages the server hands out for one query
MaxPages == 3
\* most records on one result page
MaxPageRecords == 2
\* largest explicit limit argument (0 stands for "no limit")
MaxLimit == 1
\* deepest nesting of relationship objects inside a query result record
MaxDepth == 2

-----------------------------------------------------------------------------
(* Transport *)

\* What one HTTP exchange can end in:
\*   ok          2xx status with a JSON body
\*   http_error  raise_for_status() raises requests.HTTPError
\*   conn_error  the session call raises requests.ConnectionError / Timeout
\*   bad_body    2xx status whose body is not JSON: response.json() raises
Outcomes == {"ok", "http_error", "conn_error", "bad_body"}

\* rest_request: every requests.RequestException becomes SalesforceAPIError;
\* a body that is not JSON is returned as text.
rest_request(outcome) ==
    CASE outcome = "ok" -> "json"
      [] outcome = "bad_body" -> "text"
      [] OTHER -> "SalesforceAPIError"

\* `except requests.HTTPError` around a bare session call: the only outcome
\* the handler catches.
CaughtAsHTTPError(outcome) == outcome = "http_error"

-----------------------------------------------------------------------------
(* Identifier normalizer *)

UpperCase == {"A", "B", "C", "D", "E", "F", "G", "H", "I", "J", "K", "L", "M",
              "N", "O", "P", "Q", "R", "S", "T", "U", "V", "W", "X", "Y", "Z"}

alphabet == <<"A", "B", "C", "D", "E", "F", "G", "H", "I", "J", "K", "L", "M",
              "N", "O", "P", "Q", "R", "S", "T", "U", "V", "W", "X", "Y", "Z",
              "0", "1", "2", "3", "4", "5">>

Pow2(n) == IF n = 0 THEN 1 ELSE IF n = 1 THEN 2 ELSE IF n = 2 THEN 4
           ELSE IF n = 3 THEN 8 ELSE 16

RECURSIVE ChunkBitsReversed(_, _)
\* the bits of a chunk counted from its last character
ChunkBitsReversed(chunk, index) ==
    IF index >= Len(chunk) THEN 0
    ELSE (IF chunk[index + 1] \in UpperCase THEN Pow2(4 - index) ELSE 0)
         + ChunkBitsReversed(chunk, index + 1)

\* bits |= 1 << index for every upper-case character of the chunk
RECURSIVE ChunkBits(_, _)
ChunkBits(chunk, index) ==
    IF index >= Len(chunk) THEN 0
    ELSE (IF chunk[index + 1] \in UpperCase THEN Pow2(index) ELSE 0)
         + ChunkBits(chunk, index + 1)

\* sf_id[i : i + 5] on a text of any length
Slice(text, from, to) ==
    IF from > Len(text) THEN <<>>
    ELSE SubSeq(text, from, IF to < Len(text) THEN to ELSE Len(text))

\* the checksum appended to every non-empty text
_to_18_char_id_any_length(sf_id) ==
    IF sf_id = <<>> THEN sf_id
    ELSE sf_id \o << alphabet[ChunkBits(Slice(sf_id, 1, 5), 0) + 1],
                     alphabet[ChunkBits(Slice(sf_id, 6, 10), 0) + 1],
                     alphabet[ChunkBits(Slice(sf_id, 11, 15), 0) + 1] >>

\* the checksum appended to every text of 15 characters or more
_to_18_char_id_at_least_15(sf_id) ==
    IF Len(sf_id) < 15 THEN sf_id
    ELSE sf_id \o << alphabet[ChunkBits(SubSeq(sf_id, 1, 5), 0) + 1],
                     alphabet[ChunkBits(SubSeq(sf_id, 6, 10), 0) + 1],
                     alphabet[ChunkBits(SubSeq(sf_id, 11, 15), 0) + 1] >>

\* identifiers are sequences of one-character strings; <<>> is None / ''
_to_18_char_id(sf_id) ==
    IF Len(sf_id) # 15 THEN sf_id
    ELSE sf_id \o << alphabet[ChunkBits(SubSeq(sf_id, 1, 5), 0) + 1],
                     alphabet[ChunkBits(SubSeq(sf_id, 6, 10), 0) + 1],
                     alphabet[ChunkBits(SubSeq(sf_id, 11, 15), 0) + 1] >>

\* _to_18_char_id of metadata/views.py, the module's own copy of the function
metadata_views_to_18_char_id(sf_id) ==
    IF sf_id = <<>> \/ Len(sf_id) # 15 THEN sf_id
    ELSE sf_id \o [j \in 1..3 |->
                     alphabet[ChunkBits(SubSeq(sf_id, 5 * (j - 1) + 1, 5 * j), 0) + 1]]

\* longest text handed to the normalizer
MaxIdLength == 19

\* 5-character chunks: every pattern of upper- and lower-case letters, and
\* chunks with digits, the letters at both ends of the alphabet and the
\* characters next to them
LetterChunks == [1..5 -> {"a", "B"}]

OtherChunks ==
    { <<"0", "0", "0", "0", "0">>, <<"a", "Z", "@", "[", "A">>,
      <<"Z", "Z", "Z", "Z", "Z">> }

\* 15-character identifiers
Ids15 == { c1 \o c2 \o c3 : c1 \in LetterChunks, c2 \in OtherChunks, c3 \in OtherChunks }

\* texts of every other length up to MaxIdLength, None / '' among them
OtherTexts ==
    { [i \in 1..n |-> IF i % 3 = 0 THEN char ELSE "C"] :
        n \in (0..MaxIdLength) \ {15}, char \in {"a", "B", "0"} }

\* what the normalizer is called with: 15-character identifiers, texts of other
\* lengths, and 18-character identifiers
SfIds == Ids15 \cup OtherTexts \cup { id \o <<"A", "A", "A">> : id \in Ids15 }

NidIdle ==
    [applied |-> FALSE, sf_id |-> <<>>, result |-> <<>>, views_result |-> <<>>,
     again |-> <<>>]

\* the normalizer, both copies, applied to an identifier
nz_normalize ==
    /\ pc = "idle"
    /\ \E sf_id \in SfIds :
         nid' = [NidIdle EXCEPT !.applied = TRUE, !.sf_id = sf_id,
                                !.result = _to_18_char_id(sf_id),
                                !.views_result = metadata_views_to_18_char_id(sf_id)]
    /\ pc' = "nz_id"
    /\ UNCHANGED <<lm, fd, fr, dv, mw, registry, calls>>

\* the normalizer applied to what it returned
nz_again ==
    /\ pc = "nz_id"
    /\ nid' = [nid EXCEPT !.again = _to_18_char_id(nid.result)]
    /\ pc' = "done"
    /\ UNCHANGED <<lm, fd, fr, dv, mw, registry, calls>>

-----------------------------------------------------------------------------
(* Type registry *)

\* An absent key is "" (strings) or <<>> (lists); describe is TRUE unless the
\* entry says False, use_tooling defaults to TRUE.  metadata_filter is the list
\* under its 'queries' key.
EmptyOverride ==
    [tooling_type |-> "", describe |-> TRUE, use_tooling |-> TRUE,
     query_fields |-> <<>>, preferred_fields |-> <<>>, query_filter |-> "",
     lookup_fields |-> <<>>, order_field |-> "", id_field |-> "",
     custom_list_handler |-> "", custom_detail_handler |-> "",
     metadata_endpoint |-> "", metadata_filter |-> <<>>]

METADATA_TYPE_OVERRIDES ==
    [t \in {"CustomObject", "ApexClass", "ApprovalProcess", "Report", "ReportType",
           "DuplicateRule"} |->
        CASE t = "CustomObject" ->
               [EmptyOverride EXCEPT
                  !.tooling_type = "EntityDefinition", !.describe = FALSE,
                  !.query_fields = <<"DurableId", "QualifiedApiName", "Label",
                                     "PluralLabel", "IsQueryable", "IsCustomizable",
                                     "NamespacePrefix">>,
                  !.preferred_fields = <<"Label", "QualifiedApiName", "PluralLabel",
                                         "IsCustomizable", "IsQueryable",
                                         "NamespacePrefix">>,
                  !.query_filter = "IsCustomizable = true",
                  !.lookup_fields = <<"QualifiedApiName", "DeveloperName", "DurableId">>,
                  !.order_field = "QualifiedApiName", !.id_field = "DurableId"]
          [] t = "ApexClass" ->
               [EmptyOverride EXCEPT
                  !.describe = FALSE,
                  !.query_fields = <<"Id", "Name", "Status", "ApiVersion",
                                     "LengthWithoutComments", "NamespacePrefix",
                                     "LastModifiedDate", "CreatedDate">>,
                  !.preferred_fields = <<"Name", "Status", "ApiVersion",
                                         "LengthWithoutComments", "LastModifiedDate">>,
                  !.order_field = "LastModifiedDate",
                  !.lookup_fields = <<"Name", "DeveloperName">>, !.id_field = "Id"]
          [] t = "ApprovalProcess" ->
               [EmptyOverride EXCEPT
                  !.tooling_type = "ProcessDefinition", !.describe = TRUE,
                  !.use_tooling = FALSE,
                  !.preferred_fields = <<"Name", "DeveloperName", "TableEnumOrId", "Type",
                                         "LastModifiedDate">>,
                  !.query_filter = "Type = 'Approval'",
                  !.order_field = "LastModifiedDate",
                  !.lookup_fields = <<"Id", "DeveloperName", "Name">>, !.id_field = "Id"]
          [] t = "Report" ->
               [EmptyOverride EXCEPT
                  !.tooling_type = "Report", !.describe = TRUE, !.use_tooling = FALSE,
                  !.preferred_fields = <<"Name", "DeveloperName", "Format",
                                         "LastRunDate", "LastModifiedDate">>,
                  !.order_field = "LastModifiedDate",
                  !.lookup_fields = <<"Id", "DeveloperName", "Name">>, !.id_field = "Id"]
          [] t = "ReportType" ->
               [EmptyOverride EXCEPT
                  !.tooling_type = "CustomReportType",
                  !.custom_list_handler = "report_type",
                  !.custom_detail_handler = "report_type"]
          [] t = "DuplicateRule" ->
               [EmptyOverride EXCEPT
                  !.tooling_type = "DuplicateRule",
                  !.metadata_endpoint = "/services/data/v{api_version}/metadata/",
                  !.metadata_filter = << [type |-> "DuplicateRule"] >>]]

DEFAULT_METADATA_LOOKUP_FIELDS == <<"QualifiedApiName", "DeveloperName", "Name", "FullName">>

\* the two module-level objects as the import of the module leaves them; every
\* call reads them through the module's globals
TypeRegistry ==
    [METADATA_TYPE_OVERRIDES |-> METADATA_TYPE_OVERRIDES,
     DEFAULT_METADATA_LOOKUP_FIELDS |-> DEFAULT_METADATA_LOOKUP_FIELDS]

\* METADATA_TYPE_OVERRIDES.get(metadata_type, {})
Override(metadata_type) ==
    IF metadata_type \in DOMAIN registry.METADATA_TYPE_OVERRIDES
    THEN registry.METADATA_TYPE_OVERRIDES[metadata_type]
    ELSE EmptyOverride

\* override.get('tooling_type', metadata_type)
ToolingType(metadata_type) ==
    IF Override(metadata_type).tooling_type # ""
    THEN Override(metadata_type).tooling_type
    ELSE metadata_type

\* the logical type names requests are made for; "Flow" is not registered
TypeNames ==
    {"CustomObject", "ApexClass", "ApprovalProcess", "Report", "ReportType",
     "DuplicateRule", "Flow"}

-----------------------------------------------------------------------------
(* list_metadata: the query-language path *)

\* a dispatch that does not look at metadata_endpoint
ListPathWithoutFallback(metadata_type) ==
    IF Override(metadata_type).custom_list_handler = "report_type" THEN "custom"
    ELSE "query"

\* which of the three listing paths list_metadata takes for a type
ListPath(metadata_type) ==
    IF Override(metadata_type).custom_list_handler = "report_type" THEN "custom"
    ELSE IF Override(metadata_type).metadata_endpoint # "" THEN "metadata_api"
    ELSE "query"

\* describe_payload.get('fields', []) of the describe responses the server gives
\* none; a few; more than the projection takes, every preferred name among them;
\* none of the names the name filter looks at; a name given twice
DescribeFieldLists ==
    { <<>>,
      <<"Id", "Name", "LastModifiedDate">>,
      <<"Id", "Name", "DeveloperName", "Label", "QualifiedApiName", "FullName",
        "NamespacePrefix", "LastModifiedDate", "CreatedDate", "Format", "LastRunDate",
        "TableEnumOrId", "Type">>,
      <<"Id", "MasterLabel", "CreatedDate">>,
      <<"Id", "Name", "MasterLabel", "Name">> }

\* [{'name': field} for field in override.get('query_fields', [])]
StaticFields(metadata_type) == Override(metadata_type).query_fields

(* list_metadata: the field projection (lines 561-615) *)

\* `x in seq` for a list
InSeq(x, seq) == \E i \in 1..Len(seq) : seq[i] = x

\* the names the listing prefers when the type's entry names none
preferred_fields ==
    <<"Label", "QualifiedApiName", "DeveloperName", "Name", "FullName",
      "NamespacePrefix", "LastModifiedDate", "CreatedDate">>

\* override_preferred + [field for field in preferred_fields if field not in override_preferred]
PreferredFields(metadata_type) ==
    LET override_preferred == Override(metadata_type).preferred_fields
    IN IF override_preferred # <<>>
       THEN override_preferred
            \o SelectSeq(preferred_fields, LAMBDA field : ~InSeq(field, override_preferred))
       ELSE preferred_fields

\* the registry if the preferred list were extended in place (`+=`)
RegistryAfterPreferredInPlace(metadata_type) ==
    IF metadata_type \in DOMAIN registry.METADATA_TYPE_OVERRIDES
       /\ Override(metadata_type).preferred_fields # <<>>
    THEN [registry EXCEPT !.METADATA_TYPE_OVERRIDES[metadata_type].preferred_fields =
                              PreferredFields(metadata_type)]
    ELSE registry

\* the registry after lines 571-574: `override_preferred + [...]` builds a new
\* list and leaves the entry's own list as it was
RegistryAfterPreferred(metadata_type) == registry

\* override.get('id_field', 'Id')
IdField(metadata_type) ==
    IF Override(metadata_type).id_field # "" THEN Override(metadata_type).id_field ELSE "Id"

\* field_names = {field['name']: field for field in fields}: the names available
FieldNames(fields) == {fields[i] : i \in 1..Len(fields)}

\* the most fields the loop over the remaining fields lets the projection grow to
FieldCap == 12

\* the remaining fields taken whatever the length of the projection
TakesRemainingUncapped(name, soql_fields) == name # "" /\ ~InSeq(name, soql_fields)

\* `if name and name not in soql_fields and len(soql_fields) < 12`
TakesRemaining(name, soql_fields) ==
    name # "" /\ ~InSeq(name, soql_fields) /\ Len(soql_fields) < FieldCap

\* soql_fields and display_columns, which grow together
Projection(soql_fields, display_columns) ==
    [soql_fields |-> soql_fields, display_columns |-> display_columns]

\* `for field_name in preferred_fields: if field_name in field_names: append to
\* both`
AppendPreferred(preferred, field_names, projection) ==
    LET found == SelectSeq(preferred, LAMBDA field_name : field_name \in field_names)
    IN Projection(projection.soql_fields \o found, projection.display_columns \o found)

RECURSIVE AppendRemaining(_, _, _)
\* `for field in fields: name = field.get('name'); if ...: append to both`, the
\* first i fields of the loop done
AppendRemaining(fields, i, projection) ==
    IF i = 0 THEN projection
    ELSE LET before == AppendRemaining(fields, i - 1, projection)
         IN IF TakesRemaining(fields[i], before.soql_fields)
            THEN Projection(Append(before.soql_fields, fields[i]),
                            Append(before.display_columns, fields[i]))
            ELSE before

RECURSIVE _dedupe_from(_, _)
\* the result list of _dedupe after the first i items
_dedupe_from(seq, i) ==
    IF i = 0 THEN <<>>
    ELSE LET result == _dedupe_from(seq, i - 1)
         IN IF seq[i] # "" /\ ~InSeq(seq[i], result) THEN Append(result, seq[i])
            ELSE result

\* _dedupe: the first occurrence of every non-empty item, in order
_dedupe(seq) == _dedupe_from(seq, Len(seq))

\* lines 581-612: the projection of a list call
BuildProjection(metadata_type, fields, use_fields_all) ==
    IF use_fields_all THEN Projection(<<>>, <<>>)
    ELSE LET id_field == IdField(metadata_type)
             with_id == IF id_field # "" THEN <<id_field>> ELSE <<>>
             with_Id == IF InSeq("Id", with_id) THEN with_id ELSE Append(with_id, "Id")
             preferred == AppendPreferred(PreferredFields(metadata_type),
                                          FieldNames(fields), Projection(with_Id, <<>>))
             remaining == AppendRemaining(fields, Len(fields), preferred)
             deduped == _dedupe(remaining.soql_fields)
         IN Projection(IF InSeq("Id", deduped) THEN deduped ELSE <<"Id">> \o deduped,
                       _dedupe(remaining.display_columns))

\* the keys of a record of the query endpoint, as FIELDS(ALL) returns them
RecordKeys == <<"attributes", "Id", "Name", "MasterLabel", "CreatedDate">>

\* the columns with every display column appended after Label, Label included
ColumnsLabelRepeated(display_columns, soql_fields, use_fields_all, records) ==
    IF use_fields_all
    THEN IF records # <<>> THEN SelectSeq(RecordKeys, LAMBDA key : key # "attributes")
         ELSE <<>>
    ELSE LET columns == (IF InSeq("Label", display_columns) THEN <<"Label">> ELSE <<>>)
                        \o display_columns
         IN IF columns # <<>> THEN columns
            ELSE IF display_columns # <<>> THEN display_columns ELSE soql_fields

\* lines 693-701: the columns list of the payload
Columns(display_columns, soql_fields, use_fields_all, records) ==
    IF use_fields_all
    THEN IF records # <<>> THEN SelectSeq(RecordKeys, LAMBDA key : key # "attributes")
         ELSE <<>>
    ELSE LET columns == (IF InSeq("Label", display_columns) THEN <<"Label">> ELSE <<>>)
                        \o SelectSeq(display_columns, LAMBDA col : col # "Label")
         IN IF columns # <<>> THEN columns
            ELSE IF display_columns # <<>> THEN display_columns ELSE soql_fields

(* list_metadata: the query text (lines 617-654) *)

\* Texts that are searched are sequences of one-character strings; <<>> is the
\* empty text, None and a null field alike.
LowerCase == <<"a", "b", "c", "d", "e", "f", "g", "h", "i", "j", "k", "l", "m",
               "n", "o", "p", "q", "r", "s", "t", "u", "v", "w", "x", "y", "z">>

\* str.lower() on one character and on a text
LowerChar(char) ==
    IF char \in UpperCase THEN LowerCase[CHOOSE i \in 1..26 : alphabet[i] = char] ELSE char

lower(text) == [i \in 1..Len(text) |-> LowerChar(text[i])]

RECURSIVE EscapeQuotes(_)
\* name_filter.replace("'", "\\'")
EscapeQuotes(text) ==
    IF text = <<>> THEN <<>>
    ELSE (IF Head(text) = "'" THEN <<"\\", "'">> ELSE <<Head(text)>>)
         \o EscapeQuotes(Tail(text))

\* like_value = name_filter.replace("'", "\\'").lower()
LikeValue(name_filter) == lower(EscapeQuotes(name_filter))

\* the fields the name filter is matched on: those of the five that are available
SearchableFields(fields) ==
    SelectSeq(<<"Label", "QualifiedApiName", "DeveloperName", "Name", "FullName">>,
              LAMBDA field : field \in FieldNames(fields))

\* f"({' OR '.join(filter_terms)})": one LOWER(field) LIKE '%like_value%' per field
LikeConjunct(searchable_fields, like_value) ==
    [kind |-> "like", fields |-> searchable_fields, like_value |-> like_value,
     expression |-> ""]

\* f"({override_filter})"
ExpressionConjunct(override_filter) ==
    [kind |-> "expression", fields |-> <<>>, like_value |-> <<>>,
     expression |-> "(" \o override_filter \o ")"]

\* the filters list, whose entries ' AND '.join makes the WHERE clause of
Filters(metadata_type, name_filter, fields, use_fields_all) ==
    (IF name_filter # <<>> /\ ~use_fields_all /\ SearchableFields(fields) # <<>>
     THEN << LikeConjunct(SearchableFields(fields), LikeValue(name_filter)) >>
     ELSE <<>>)
    \o (IF Override(metadata_type).query_filter # ""
        THEN << ExpressionConjunct(Override(metadata_type).query_filter) >>
        ELSE <<>>)

\* the field of ORDER BY ... DESC, "" for none
OrderField(metadata_type, soql_fields) ==
    IF Override(metadata_type).order_field # "" THEN Override(metadata_type).order_field
    ELSE IF InSeq("LastModifiedDate", soql_fields) THEN "LastModifiedDate"
    ELSE IF InSeq("CreatedDate", soql_fields) THEN "CreatedDate"
    ELSE ""

NoSoql == [select |-> <<>>, from |-> "", where |-> <<>>, order_by |-> "", limit |-> 0]

\* a query text whose all-fields form keeps the WHERE and ORDER BY clauses
SoqlFilteredInAllFields(metadata_type, name_filter, limit, fields, use_fields_all, soql_fields) ==
    [select |-> IF use_fields_all THEN <<"FIELDS(ALL)">> ELSE soql_fields,
     from |-> ToolingType(metadata_type),
     where |-> Filters(metadata_type, name_filter, fields, FALSE),
     order_by |-> OrderField(metadata_type, soql_fields), limit |-> limit]

\* the query text by its clauses; limit 0 stands for no LIMIT clause
Soql(metadata_type, name_filter, limit, fields, use_fields_all, soql_fields) ==
    IF use_fields_all
    THEN [select |-> <<"FIELDS(ALL)">>, from |-> ToolingType(metadata_type),
          where |-> <<>>, order_by |-> "", limit |-> limit]
    ELSE [select |-> soql_fields, from |-> ToolingType(metadata_type),
          where |-> Filters(metadata_type, name_filter, fields, use_fields_all),
          order_by |-> OrderField(metadata_type, soql_fields), limit |-> limit]

(* the query endpoint *)

\* the rows of the queried object by their searchable fields
ServerRows ==
    << [Label |-> <<>>, QualifiedApiName |-> <<>>, DeveloperName |-> <<>>,
        Name |-> <<"A", "c", "m", "e">>, FullName |-> <<>>],
       [Label |-> <<"Z">>, QualifiedApiName |-> <<>>, DeveloperName |-> <<>>,
        Name |-> <<"c", "x", "b">>, FullName |-> <<>>],
       [Label |-> <<>>, QualifiedApiName |-> <<>>, DeveloperName |-> <<"a", "C">>,
        Name |-> <<>>, FullName |-> <<>>] >>

\* the row behind record j of page k
RowOf(record) == ServerRows[((record[1] + record[2]) % Len(ServerRows)) + 1]

RECURSIVE LikeMatch(_, _)
\* text LIKE pattern as the query language evaluates it: % stands for any run of
\* characters, _ for any one character, a backslash takes the next one literally,
\* letters compare without regard to case
LikeMatch(pattern, text) ==
    IF pattern = <<>> THEN text = <<>>
    ELSE IF pattern[1] = "%"
    THEN LikeMatch(Tail(pattern), text) \/ (text # <<>> /\ LikeMatch(pattern, Tail(text)))
    ELSE IF pattern[1] = "\\" /\ Len(pattern) > 1
    THEN /\ text # <<>>
         /\ LowerChar(text[1]) = LowerChar(pattern[2])
         /\ LikeMatch(Tail(Tail(pattern)), Tail(text))
    ELSE /\ text # <<>>
         /\ pattern[1] = "_" \/ LowerChar(text[1]) = LowerChar(pattern[1])
         /\ LikeMatch(Tail(pattern), Tail(text))

\* a row satisfies the WHERE clause: of a name conjunct one of the OR-ed terms
\* LOWER(field) LIKE '%like_value%' (never true of a null field); the type's own
\* expression holds of every row of the table
Satisfies(where, row) ==
    \A i \in 1..Len(where) :
        where[i].kind = "like" =>
            \E j \in 1..Len(where[i].fields) :
                /\ row[where[i].fields[j]] # <<>>
                /\ LikeMatch(<<"%">> \o where[i].like_value \o <<"%">>,
                             lower(row[where[i].fields[j]]))

\* Page k of a query's result as the REST query endpoint returns it: of the n
\* rows the page spans those that satisfy the WHERE clause, and a nextRecordsUrl
\* (the number of the next page) exactly when done is false.
ServerPage(k, n, more, where) ==
    [records |-> SelectSeq([j \in 1..n |-> <<k, j>>],
                           LAMBDA record : Satisfies(where, RowOf(record))),
     done |-> ~more,
     nextRecordsUrl |-> IF more THEN k + 1 ELSE 0]

NoPayload == [records |-> <<>>, done |-> FALSE, nextRecordsUrl |-> 0]

(* list_metadata: the call *)

\* the name_filter arguments: none, letters in another case than the rows', a
\* text with a character the query language reads as a wildcard, a text with a
\* single quote, and one with a backslash before the quote
NameFilters == { <<>>, <<"A", "C">>, <<"c", "_">>, <<"c", "'">>, <<"\\", "'">> }

LmIdle ==
    [metadata_type |-> "", name_filter |-> <<>>, limit |-> 0, fields |-> <<>>,
     describe_error |-> FALSE, use_fields_all |-> FALSE,
     soql_fields |-> <<>>, display_columns |-> <<>>, soql |-> NoSoql,
     records |-> <<>>, next_records_url |-> 0,
     payload |-> NoPayload, columns |-> <<>>, total_size |-> 0,
     raised |-> "", returned |-> FALSE]

\* one entry of the transport log of a list call: the request, the page asked
\* for, how it ended, the records of the response, the query text sent and the
\* number of rows the page spans
ListCall(req, url, outcome, records, soql, rows) ==
    [req |-> req, url |-> url, outcome |-> outcome, records |-> records,
     soql |-> soql, rows |-> rows]

\* `if not fields and not use_fields_all: raise SalesforceAPIError(...)`
NoFieldList(fields, use_fields_all) == fields = <<>> /\ ~use_fields_all

\* a loop condition that does not look at the limit
FollowsContinuationDespiteLimit(next_records_url, limit) == next_records_url # 0

\* `while next_records_url and not limit`
FollowsContinuation(next_records_url, limit) == next_records_url # 0 /\ limit = 0

\* records.extend(next_payload.get('records', []))
ExtendRecords(records, next_payload) == records \o next_payload.records

\* payload['records'] = records; payload.pop('nextRecordsUrl', None); return payload
ReturnedPayload(payload, records) ==
    [payload EXCEPT !.records = records, !.nextRecordsUrl = 0]

\* what the pagination loop does with a fetch that did not succeed:
\* `except requests.HTTPError: break`, anything else propagates
PaginationFailure(outcome) ==
    IF CaughtAsHTTPError(outcome) THEN "break"
    ELSE IF outcome = "conn_error" THEN "ConnectionError"
    ELSE "JSONDecodeError"

\* what the first query does with a request that did not succeed:
\* HTTPError is re-raised as SalesforceAPIError, anything else propagates
FirstQueryFailure(outcome) ==
    IF CaughtAsHTTPError(outcome) THEN "SalesforceAPIError"
    ELSE IF outcome = "conn_error" THEN "ConnectionError"
    ELSE "JSONDecodeError"

\* lines 691-705: the payload with its records and columns
lm_finish(l) ==
    /\ lm' = [l EXCEPT !.payload = ReturnedPayload(l.payload, l.records),
                       !.columns = Columns(l.display_columns, l.soql_fields,
                                           l.use_fields_all, l.records),
                       !.returned = TRUE]
    /\ pc' = "done"

lm_raise(l, exception) ==
    /\ lm' = [l EXCEPT !.raised = exception]
    /\ pc' = "done"

\* lines 561-654 once the field list is there: projection and query text
lm_build(l) ==
    LET projection == BuildProjection(l.metadata_type, l.fields, l.use_fields_all)
    IN [l EXCEPT !.soql_fields = projection.soql_fields,
                 !.display_columns = projection.display_columns,
                 !.soql = Soql(l.metadata_type, l.name_filter, l.limit, l.fields,
                               l.use_fields_all, projection.soql_fields)]

\* entry of list_metadata: the choice of the listing path, and the query-language
\* path up to the describe call (lines 519-540, 552-559)
lm_start ==
    /\ pc = "idle"
    /\ \E metadata_type \in TypeNames, name_filter \in NameFilters, limit \in 0..MaxLimit :
         LET l0 == [LmIdle EXCEPT !.metadata_type = metadata_type,
                                  !.name_filter = name_filter, !.limit = limit]
         IN CASE ListPath(metadata_type) = "custom" ->
                   lm' = l0 /\ pc' = "lm_report_types"
              [] ListPath(metadata_type) = "metadata_api" ->
                   lm' = l0 /\ pc' = "lm_post"
              [] OTHER ->
                   IF Override(metadata_type).describe = FALSE
                   THEN LET l1 == [l0 EXCEPT !.fields = StaticFields(metadata_type)]
                        IN IF NoFieldList(l1.fields, l1.use_fields_all)
                           THEN lm_raise(l1, "SalesforceAPIError")
                           ELSE lm' = lm_build(l1) /\ pc' = "lm_query"
                   ELSE lm' = l0 /\ pc' = "lm_describe"
    /\ registry' = IF pc' = "lm_query" THEN RegistryAfterPreferred(lm'.metadata_type)
                   ELSE registry
    /\ UNCHANGED <<fd, fr, nid, dv, mw, calls>>

\* the describe call and the choice of the field list (lines 541-559)
lm_describe ==
    /\ pc = "lm_describe"
    /\ \E outcome \in Outcomes, payload_fields \in DescribeFieldLists :
         LET got == rest_request(outcome)
             static == StaticFields(lm.metadata_type)
             l1 == CASE got = "json" -> [lm EXCEPT !.fields = payload_fields]
                     [] got = "SalesforceAPIError" ->
                          IF static # <<>>
                          THEN [lm EXCEPT !.describe_error = TRUE, !.fields = static]
                          ELSE [lm EXCEPT !.describe_error = TRUE, !.use_fields_all = TRUE]
                     [] OTHER -> lm
             l2 == IF l1.fields = <<>> /\ static # <<>>
                   THEN [l1 EXCEPT !.fields = static] ELSE l1
         IN /\ outcome # "ok" => payload_fields = <<>>
            /\ calls' = Append(calls, ListCall("describe", 0, outcome, <<>>, NoSoql, 0))
            /\ IF got = "text"
               THEN lm_raise(lm, "AttributeError")
               ELSE IF NoFieldList(l2.fields, l2.use_fields_all)
               THEN lm_raise(l2, "SalesforceAPIError")
               ELSE lm' = lm_build(l2) /\ pc' = "lm_query"
    /\ registry' = IF pc' = "lm_query" THEN RegistryAfterPreferred(lm.metadata_type)
                   ELSE registry
    /\ UNCHANGED <<fd, fr, nid, dv, mw>>

\* the first query and what follows it when nothing is left to fetch (lines 656-705)
lm_query ==
    /\ pc = "lm_query"
    /\ \E outcome \in Outcomes, n \in 0..MaxPageRecords, more \in BOOLEAN :
         LET page == ServerPage(1, n, more, lm.soql.where)
             l1 == [lm EXCEPT !.payload = page, !.records = page.records,
                              !.next_records_url = page.nextRecordsUrl]
         IN /\ outcome # "ok" => (n = 0 /\ ~more)
            /\ more => 1 < MaxPages
            /\ calls' = Append(calls, ListCall("query", 0, outcome,
                                               IF outcome = "ok" THEN page.records ELSE <<>>,
                                               lm.soql, n))
            /\ IF outcome # "ok"
               THEN lm_raise(lm, FirstQueryFailure(outcome))
               ELSE IF FollowsContinuation(l1.next_records_url, l1.limit)
               THEN lm' = l1 /\ pc' = "lm_more"
               ELSE lm_finish(l1)
    /\ UNCHANGED <<fd, fr, nid, dv, mw, registry>>

\* one round of the continuation loop (lines 681-705)
lm_more ==
    /\ pc = "lm_more"
    /\ \E outcome \in Outcomes, n \in 0..MaxPageRecords, more \in BOOLEAN :
         LET k == lm.next_records_url
             page == ServerPage(k, n, more, lm.soql.where)
             l1 == [lm EXCEPT !.records = ExtendRecords(lm.records, page),
                              !.next_records_url = page.nextRecordsUrl]
         IN /\ outcome # "ok" => (n = 0 /\ ~more)
            /\ more => k < MaxPages
            /\ calls' = Append(calls, ListCall("queryMore", k, outcome,
                                               IF outcome = "ok" THEN page.records ELSE <<>>,
                                               NoSoql, n))
            /\ IF outcome # "ok"
               THEN IF PaginationFailure(outcome) = "break"
                    THEN lm_finish(lm)
                    ELSE lm_raise(lm, PaginationFailure(outcome))
               ELSE IF FollowsContinuation(l1.next_records_url, l1.limit)
               THEN lm' = l1 /\ pc' = "lm_more"
               ELSE lm_finish(l1)
    /\ UNCHANGED <<fd, fr, nid, dv, mw, registry>>


(* metadata_api_query (lines 1142-1196) *)

\* most entries in one listMetadata response
MaxEntries == 2

\* the entries the metadata endpoint lists: loosely typed mappings, the keys in
\* the order of the response, a value a text or None (<<>>)
MetadataEntries ==
    { << <<"type", <<"D", "R">>>>, <<"fullName", <<"A", "c", "m", "e">>>> >>,
      << <<"id", <<"0", "1">>>>, <<"fullName", <<"c", "x", "b">>>>,
         <<"createdDate", <<>>>> >>,
      << <<"namespacePrefix", <<"a", "C">>>> >> }

RECURSIVE EntryLists(_)
\* the response bodies of at most n entries
EntryLists(n) ==
    IF n = 0 THEN { <<>> }
    ELSE EntryLists(n - 1)
         \cup { Append(entries, entry) :
                  entries \in {e \in EntryLists(n - 1) : Len(e) = n - 1},
                  entry \in MetadataEntries }

\* the query payload: the type's metadata_filter with the type filled in where a
\* query names none, or one query for the tooling type
MetadataQuery(metadata_type) ==
    LET queries == Override(metadata_type).metadata_filter
    IN IF queries # <<>>
       THEN [i \in 1..Len(queries) |->
               IF queries[i].type = "" THEN [type |-> ToolingType(metadata_type)]
               ELSE queries[i]]
       ELSE << [type |-> ToolingType(metadata_type)] >>

\* the registry after lines 1148-1153: json.loads(json.dumps(...)) copies the
\* entry's metadata_filter, and the 'type' keys are set in the copy
RegistryAfterMetadataQuery(metadata_type) == registry

\* f"{instance_url}{endpoint}listMetadata", the endpoint being the type's template
\* with the connection's api_version filled in
MetadataUrl(metadata_type) == Override(metadata_type).metadata_endpoint \o "listMetadata"

\* `sub in text`
Contains(text, sub) ==
    \E offset \in 0..(Len(text) - Len(sub)) :
        SubSeq(text, offset + 1, offset + Len(sub)) = sub

\* `any(lowered in str(record.get(key) or '').lower() for key in record.keys())`
EntryMatches(record, lowered) ==
    \E i \in 1..Len(record) : Contains(lower(record[i][2]), lowered)

\* the records left by the name filter
FilterEntries(records, name_filter) ==
    IF name_filter # <<>>
    THEN SelectSeq(records, LAMBDA record : EntryMatches(record, lower(name_filter)))
    ELSE records

\* the keys of the entries in the order sorted() puts them
KeyOrder == <<"createdDate", "fullName", "id", "namespacePrefix", "type">>

\* {key for record in records for key in record.keys()}
KeyUnion(records) ==
    UNION { {records[i][j][1] : j \in 1..Len(records[i])} : i \in 1..Len(records) }

RECURSIVE KeysAsMet(_)
\* the keys in the order the entries bring them, each once
KeysAsMet(records) ==
    IF records = <<>> THEN <<>>
    ELSE LET before == KeysAsMet(SubSeq(records, 1, Len(records) - 1))
             last == records[Len(records)]
         IN before \o SelectSeq([j \in 1..Len(last) |-> last[j][1]],
                                LAMBDA key : ~InSeq(key, before))

\* sorted({...}) if records else []
SortedColumns(records) ==
    SelectSeq(KeyOrder, LAMBDA key : key \in KeyUnion(records))

\* what the POST does with a request that did not succeed
PostFailure(outcome) ==
    IF CaughtAsHTTPError(outcome) THEN "SalesforceAPIError"
    ELSE IF outcome = "conn_error" THEN "ConnectionError"
    ELSE "JSONDecodeError"

\* the one POST of the metadata-API fallback and the payload made of its response
lm_post ==
    /\ pc = "lm_post"
    /\ \E outcome \in Outcomes, entries \in EntryLists(MaxEntries) :
         LET records == FilterEntries(entries, lm.name_filter)
         IN /\ outcome # "ok" => entries = <<>>
            /\ calls' = Append(calls,
                   [req |-> "post", url |-> MetadataUrl(lm.metadata_type),
                    outcome |-> outcome, records |-> entries,
                    query |-> MetadataQuery(lm.metadata_type)])
            /\ IF outcome # "ok"
               THEN lm_raise(lm, PostFailure(outcome))
               ELSE /\ lm' = [lm EXCEPT !.records = records,
                                        !.payload = [records |-> records, done |-> TRUE,
                                                     nextRecordsUrl |-> 0],
                                        !.columns = SortedColumns(records),
                                        !.total_size = Len(records),
                                        !.returned = TRUE]
                    /\ pc' = "done"
    /\ registry' = RegistryAfterMetadataQuery(lm.metadata_type)
    /\ UNCHANGED <<fd, fr, nid, dv, mw>>

-----------------------------------------------------------------------------
(* fetch_metadata_detail *)

\* 15-character identifier of a record, its 18-character form, and a key that is
\* no record identifier (a DurableId such as "Acc")
Id15 == <<"0", "1", "p", "A", "b", "0", "0", "0", "0", "0", "X", "y", "Z", "1", "2">>
Id18 == _to_18_char_id(Id15)
OtherId18 == _to_18_char_id(<<"0", "1", "p", "Q", "Q", "0", "0", "0", "0", "0", "a", "b", "c", "3", "4">>)
DurableKey == <<"A", "c", "c">>

\* record_id and api_name arguments; <<>> is None
RecordIds == {<<>>, Id15, Id18, DurableKey}
ApiNames == {<<>>, <<"A", "'", "c">>}

\* Id values of the rows the server holds; <<>> is a row without an Id
RowIds == {Id18, OtherId18, <<>>}
\* value of the record field naming the associated data object ("" when absent)
ObjectApis == {"", "Account"}

NoRecord == [kind |-> "none", Id |-> <<>>, object_api |-> ""]
\* the full record the sobjects endpoint returns for an identifier
ServerRecord(id, object_api) == [kind |-> "record", Id |-> id, object_api |-> object_api]
\* the row of a `SELECT Id ... LIMIT 1` query
QueryRow(id) == [kind |-> "row", Id |-> id, object_api |-> ""]
\* response.text, which rest_request returns for a body that is not JSON
TextBody == [kind |-> "text", Id |-> <<>>, object_api |-> ""]
\* the record _fetch_report_type_detail builds from the report type resource
ReportTypeRecord(target_name) == [kind |-> "report_type", Id |-> target_name, object_api |-> ""]

DetailPath(metadata_type) ==
    IF Override(metadata_type).custom_detail_handler = "report_type" THEN "custom"
    ELSE "generic"

\* override.get('lookup_fields', DEFAULT_METADATA_LOOKUP_FIELDS)
LookupFields(metadata_type) ==
    IF Override(metadata_type).lookup_fields # <<>>
    THEN Override(metadata_type).lookup_fields
    ELSE registry.DEFAULT_METADATA_LOOKUP_FIELDS

\* the registry after lines 742-744: lookup_candidates.extend(...) reads the
\* entry's lookup_fields (or the default list) and extends the local list only
RegistryAfterLookup(metadata_type) == registry

\* the ordered (field, value) pairs of lines 735-744
LookupCandidates(metadata_type, record_id, api_name) ==
    LET id_field == Override(metadata_type).id_field
        lookup_fields == LookupFields(metadata_type)
    IN (IF record_id # <<>>
        THEN (IF id_field # "" THEN << <<id_field, record_id>> >> ELSE <<>>)
             \o << <<"Id", _to_18_char_id(record_id)>> >>
        ELSE <<>>)
       \o (IF api_name # <<>>
           THEN [i \in 1..Len(lookup_fields) |-> <<lookup_fields[i], api_name>>]
           ELSE <<>>)

\* lookup_value = _to_18_char_id(value) if field == 'Id' else value
LookupValue(field, value) == IF field = "Id" THEN _to_18_char_id(value) ELSE value

\* the first candidate at or after position i that the loop does not skip
\* (`if not value: continue`, `if key in attempted: continue`); Len + 1 if none
RECURSIVE NextCandidate(_, _, _)
NextCandidate(lookup_candidates, i, attempted) ==
    IF i > Len(lookup_candidates) THEN i
    ELSE IF lookup_candidates[i][2] = <<>> \/ lookup_candidates[i] \in attempted
    THEN NextCandidate(lookup_candidates, i + 1, attempted)
    ELSE i

\* the guard without its `target_record is None`
EntersFallbackWithRecord(target_record, lookup_candidates) == lookup_candidates # <<>>

\* `if target_record is None and lookup_candidates:` guards the fallback loop
EntersFallback(target_record, lookup_candidates) ==
    target_record = NoRecord /\ lookup_candidates # <<>>

\* whether the loop ends after the full fetch of a found row: the `else: break`
\* of the inner try runs only when rest_request raised nothing
BreaksAfterFullFetch(got) == got # "SalesforceAPIError"

\* which record field names the data object to describe (lines 796-803)
EnrichKind(metadata_type) ==
    IF metadata_type \in {"CustomObject", "EntityDefinition"}
       \/ ToolingType(metadata_type) = "EntityDefinition" THEN "object"
    ELSE IF metadata_type = "CustomField" THEN "field"
    ELSE "none"

\* describe_sobject turns simple_salesforce's SalesforceError (an error status)
\* into SalesforceAPIError; other exceptions pass through it
describe_object(outcome) ==
    CASE outcome = "ok" -> "schema"
      [] outcome = "http_error" -> "SalesforceAPIError"
      [] outcome = "conn_error" -> "ConnectionError"
      [] OTHER -> "JSONDecodeError"

\* a lookup query or the report type request that did not succeed, outside
\* rest_request: only requests.HTTPError is caught
BareRequestFailure(outcome) ==
    IF CaughtAsHTTPError(outcome) THEN "caught"
    ELSE IF outcome = "conn_error" THEN "ConnectionError"
    ELSE "JSONDecodeError"

FdIdle ==
    [metadata_type |-> "", record_id |-> <<>>, api_name |-> <<>>,
     target_record |-> NoRecord, record_error |-> FALSE,
     lookup_candidates |-> <<>>, idx |-> 0, attempted |-> {},
     record_row |-> NoRecord, raised |-> "", message |-> "",
     returned |-> FALSE, object |-> "absent"]

\* one entry of the transport log of a detail call
DetailCall(req, field, value, lookup_value, outcome, row) ==
    [req |-> req, field |-> field, value |-> value, lookup_value |-> lookup_value,
     outcome |-> outcome, row |-> row]

fd_raise(f, exception, message) ==
    /\ fd' = [f EXCEPT !.raised = exception, !.message = message]
    /\ pc' = "done"

\* lines 783-805: fail when nothing was resolved, else build the payload and
\* decide whether the associated object is described
fd_after_loop(f) ==
    IF f.target_record = NoRecord
    THEN IF f.record_error
         THEN fd_raise(f, "SalesforceAPIError", "direct_fetch_error")
         ELSE fd_raise(f, "SalesforceAPIError", "not_found")
    ELSE IF EnrichKind(f.metadata_type) # "none" /\ f.target_record.kind = "text"
    THEN fd_raise(f, "AttributeError", "")
    ELSE IF EnrichKind(f.metadata_type) # "none" /\ f.target_record.object_api # ""
    THEN fd' = f /\ pc' = "fd_enrich"
    ELSE fd' = [f EXCEPT !.returned = TRUE] /\ pc' = "done"

\* move the loop of lines 748-782 to its next query, or leave it
fd_next_candidate(f, from) ==
    LET i == NextCandidate(f.lookup_candidates, from, f.attempted)
    IN IF i > Len(f.lookup_candidates)
       THEN fd_after_loop(f)
       ELSE /\ fd' = [f EXCEPT !.idx = i,
                               !.attempted = @ \cup {f.lookup_candidates[i]}]
            /\ pc' = "fd_lookup"

\* lines 735-747: build the candidates, enter the loop or go past it
fd_build_candidates(f) ==
    LET f1 == [f EXCEPT !.lookup_candidates =
                           LookupCandidates(f.metadata_type, f.record_id, f.api_name)]
    IN IF EntersFallback(f1.target_record, f1.lookup_candidates)
       THEN fd_next_candidate(f1, 1)
       ELSE fd_after_loop(f1)

\* entry of fetch_metadata_detail (lines 711-727) and of
\* _fetch_report_type_detail (lines 1298-1302)
fd_start ==
    /\ pc = "idle"
    /\ \E metadata_type \in TypeNames, record_id \in RecordIds, api_name \in ApiNames :
         LET f0 == [FdIdle EXCEPT !.metadata_type = metadata_type,
                                  !.record_id = record_id, !.api_name = api_name]
         IN IF DetailPath(metadata_type) = "custom"
            THEN IF api_name = <<>> /\ record_id = <<>>
                 THEN fd_raise(f0, "SalesforceAPIError", "no_identifier")
                 ELSE fd' = f0 /\ pc' = "fd_report_type"
            ELSE IF record_id # <<>>
            THEN fd' = f0 /\ pc' = "fd_direct"
            ELSE fd_build_candidates(f0)
    /\ registry' = IF fd'.lookup_candidates # <<>> THEN RegistryAfterLookup(fd'.metadata_type)
                   ELSE registry
    /\ UNCHANGED <<lm, fr, nid, dv, mw, calls>>

\* the request of _fetch_report_type_detail (lines 1304-1340)
fd_report_type ==
    /\ pc = "fd_report_type"
    /\ \E outcome \in Outcomes :
         LET target_name == IF fd.api_name # <<>> THEN fd.api_name ELSE fd.record_id
         IN /\ calls' = Append(calls, DetailCall("report_type", "", target_name,
                                                 target_name, outcome, NoRecord))
            /\ IF outcome = "ok"
               THEN /\ fd' = [fd EXCEPT !.target_record = ReportTypeRecord(target_name),
                                        !.returned = TRUE]
                    /\ pc' = "done"
               ELSE IF BareRequestFailure(outcome) = "caught"
               THEN fd_raise(fd, "SalesforceAPIError", "report_type_failed")
               ELSE fd_raise(fd, BareRequestFailure(outcome), "")
    /\ UNCHANGED <<lm, fr, nid, dv, mw, registry>>

\* what the sobjects endpoint answers to the GET of an identifier
GetBody(outcome, id, object_api) ==
    CASE outcome = "ok" -> ServerRecord(id, object_api)
      [] outcome = "bad_body" -> TextBody
      [] OTHER -> NoRecord

\* the direct fetch by primary key (lines 727-733), then lines 735-747
fd_direct ==
    /\ pc = "fd_direct"
    /\ \E outcome \in Outcomes, object_api \in ObjectApis :
         LET safe_record_id == _to_18_char_id(fd.record_id)
             body == GetBody(outcome, safe_record_id, object_api)
             f1 == IF rest_request(outcome) = "SalesforceAPIError"
                   THEN [fd EXCEPT !.record_error = TRUE]
                   ELSE [fd EXCEPT !.target_record = body]
         IN /\ outcome # "ok" => object_api = ""
            /\ calls' = Append(calls, DetailCall("get", "", fd.record_id, safe_record_id,
                                                 outcome, body))
            /\ fd_build_candidates(f1)
    /\ registry' = IF fd.api_name # <<>> THEN RegistryAfterLookup(fd.metadata_type)
                   ELSE registry
    /\ UNCHANGED <<lm, fr, nid, dv, mw>>

\* one single-result lookup query of the fallback loop (lines 756-782)
fd_lookup ==
    /\ pc = "fd_lookup"
    /\ \E outcome \in Outcomes, hit \in BOOLEAN, row_id \in RowIds :
         LET field == fd.lookup_candidates[fd.idx][1]
             value == fd.lookup_candidates[fd.idx][2]
             record_row == QueryRow(row_id)
         IN /\ (outcome # "ok" \/ ~hit) => row_id = <<>>
            /\ outcome # "ok" => ~hit
            /\ calls' = Append(calls, DetailCall("lookup", field, value,
                                                 LookupValue(field, value), outcome,
                                                 IF hit THEN record_row ELSE NoRecord))
            /\ IF outcome # "ok"
               THEN IF BareRequestFailure(outcome) = "caught"
                    THEN fd_next_candidate(fd, fd.idx + 1)
                    ELSE fd_raise(fd, BareRequestFailure(outcome), "")
               ELSE IF ~hit
               THEN fd_next_candidate(fd, fd.idx + 1)
               ELSE IF row_id # <<>>
               THEN fd' = [fd EXCEPT !.record_row = record_row] /\ pc' = "fd_full"
               ELSE fd_after_loop([fd EXCEPT !.target_record = record_row])
    /\ UNCHANGED <<lm, fr, nid, dv, mw, registry>>

\* the fetch of the full record of a found row (lines 771-777)
fd_full ==
    /\ pc = "fd_full"
    /\ \E outcome \in Outcomes, object_api \in ObjectApis :
         LET got == rest_request(outcome)
             body == GetBody(outcome, fd.record_row.Id, object_api)
             f1 == IF got = "SalesforceAPIError"
                   THEN [fd EXCEPT !.target_record = fd.record_row]
                   ELSE [fd EXCEPT !.target_record = body]
         IN /\ outcome # "ok" => object_api = ""
            /\ calls' = Append(calls, DetailCall("full", "Id", fd.record_row.Id,
                                                 fd.record_row.Id, outcome, body))
            /\ IF BreaksAfterFullFetch(got)
               THEN fd_after_loop(f1)
               ELSE fd_next_candidate(f1, fd.idx + 1)
    /\ UNCHANGED <<lm, fr, nid, dv, mw, registry>>

\* the description of the associated data object (lines 805-842)
fd_enrich ==
    /\ pc = "fd_enrich"
    /\ \E outcome \in Outcomes :
         LET got == describe_object(outcome)
         IN /\ calls' = Append(calls, DetailCall("describe_object", "", <<>>, <<>>,
                                                 outcome, NoRecord))
            /\ CASE got = "schema" ->
                      fd' = [fd EXCEPT !.object = "schema", !.returned = TRUE] /\ pc' = "done"
                 [] got = "SalesforceAPIError" ->
                      fd' = [fd EXCEPT !.object = "None", !.returned = TRUE] /\ pc' = "done"
                 [] OTHER -> fd_raise(fd, got, "")
    /\ UNCHANGED <<lm, fr, nid, dv, mw, registry>>


-----------------------------------------------------------------------------
(* flatten_record *)

\* Python values.  A dict is the ordered sequence of its (key, value) items, a
\* list the sequence of its elements, anything else a scalar.
Scalar(v) == [t |-> "scalar", v |-> v, items |-> <<>>]
Dict(items) == [t |-> "dict", v |-> "", items |-> items]
List(elements) == [t |-> "list", v |-> "", items |-> elements]

\* `key in data`
HasKey(data, key) == \E i \in 1..Len(data.items) : data.items[i][1] = key

\* data.get(key, default)
Get(data, key, default) ==
    IF HasKey(data, key)
    THEN data.items[CHOOSE i \in 1..Len(data.items) : data.items[i][1] = key][2]
    ELSE default

\* flat_record[key] = value on the items of an OrderedDict: a key already there
\* keeps its place, a new one goes last
Assign(items, key, value) ==
    IF \E i \in 1..Len(items) : items[i][1] = key
    THEN [i \in 1..Len(items) |-> IF items[i][1] = key THEN <<key, value>> ELSE items[i]]
    ELSE Append(items, <<key, value>>)

separator == "."

\* `'records' in data and 'done' in data`
IsSubqueryResult(data) == HasKey(data, "records") /\ HasKey(data, "done")

\* the special object stored for a sub-query result
SubqueryMarker(data) ==
    Dict(<< <<"_is_subquery", Scalar("True")>>,
            <<"count", Get(data, "totalSize", Scalar("0"))>>,
            <<"records", Get(data, "records", List(<<>>))>> >>)

\* the key a sub-query marker is stored under: flat_record[prefix]
MarkerKey(prefix) == prefix

\* the key without the prefix of the enclosing relationship
NewKeyWithoutPrefix(prefix, key) == key

\* the key joined with the separator even at the top level
NewKeyAlwaysJoined(prefix, key) == prefix \o separator \o key

\* new_key = f"{prefix}{key}" if prefix else key
NewKey(prefix, key) == IF prefix # "" THEN prefix \o key ELSE key

\* `if key == 'attributes': continue`
SkipsKey(key) == key = "attributes"

RECURSIVE recurse(_, _, _), recurse_items(_, _, _, _)
\* recurse(data, prefix), with the flat_record it fills passed through
recurse(data, prefix, flat_record) ==
    IF data.t = "dict"
    THEN IF IsSubqueryResult(data)
         THEN Assign(flat_record, MarkerKey(prefix), SubqueryMarker(data))
         ELSE recurse_items(data.items, 1, prefix, flat_record)
    ELSE Assign(flat_record, prefix, data)

\* `for key, value in data.items()` from item i on
recurse_items(items, i, prefix, flat_record) ==
    IF i > Len(items) THEN flat_record
    ELSE LET key == items[i][1]
             value == items[i][2]
             new_key == NewKey(prefix, key)
         IN IF SkipsKey(key)
            THEN recurse_items(items, i + 1, prefix, flat_record)
            ELSE IF value.t = "dict"
            THEN recurse_items(items, i + 1, prefix,
                               recurse(value, new_key \o separator, flat_record))
            ELSE recurse_items(items, i + 1, prefix, Assign(flat_record, new_key, value))

\* the OrderedDict flatten_record returns
flatten_record(record) == Dict(recurse(record, "", <<>>))

(* Query result records the flattener is applied to *)

\* the attributes entry of a record: type name and canonical URL
AttributesValue == Dict(<< <<"type", Scalar("Account")>>, <<"url", Scalar("/sobjects/Account/1")>> >>)

\* the records of a sub-query result: they have attributes and a relationship
\* object of their own
SubRecords ==
    List(<< Dict(<< <<"attributes", AttributesValue>>,
                    <<"LastName", Scalar("C")>>,
                    <<"Owner", Dict(<< <<"Name", Scalar("D")>> >>)>> >>) >>)

\* sub-query results as the query endpoint embeds them, with and without totalSize
SubqueryResults ==
    { Dict(<< <<"totalSize", Scalar("3")>>, <<"done", Scalar("True")>>,
              <<"records", SubRecords>> >>),
      Dict(<< <<"done", Scalar("True")>>, <<"records", SubRecords>> >>) }

Absent == [t |-> "absent", v |-> "", items |-> <<>>]

\* the items of a dict from its optional entries, in the order given
ItemsOf(entries) == SelectSeq(entries, LAMBDA e : e[2] # Absent)

\* Records nested at most `depth` deep: an optional attributes entry, a Name, a
\* Contacts sub-query and a Parent relationship (null, or a record one level down)
RECURSIVE RecordsOfDepth(_)
RecordsOfDepth(depth) ==
    LET parents == IF depth = 0 THEN {Absent}
                   ELSE {Absent, Scalar("None")} \cup RecordsOfDepth(depth - 1)
    IN { Dict(ItemsOf(<< <<"attributes", a>>, <<"Name", n>>, <<"Contacts", c>>,
                         <<"Parent", p>> >>)) :
           a \in {Absent, AttributesValue},
           n \in {Absent, Scalar("A"), Scalar("B")},
           c \in {Absent} \cup SubqueryResults,
           p \in parents }

Records == RecordsOfDepth(MaxDepth)

\* the views that flatten the records of a query result
Callers == {"QueryIndexView.post", "query_more", "_export_csv"}

\* `if 'attributes' in record: flat['attributes'] = record['attributes']`, which
\* the display view and query_more run after flattening and the CSV export does not
RestoresAttributes(caller) == caller \in {"QueryIndexView.post", "query_more"}

\* the flattened record a view goes on with
HandedRecord(caller, record) ==
    LET flat == flatten_record(record)
    IN IF RestoresAttributes(caller) /\ HasKey(record, "attributes")
       THEN Dict(Assign(flat.items, "attributes", Get(record, "attributes", Dict(<<>>))))
       ELSE flat

FrIdle ==
    [caller |-> "", record |-> Dict(<<>>), flat |-> Dict(<<>>), handed |-> Dict(<<>>),
     again |-> Dict(<<>>)]

\* a view flattens a record of a query result: flatten_record's own result, and
\* the record the view holds afterwards
fr_flatten ==
    /\ pc = "idle"
    /\ \E caller \in Callers, record \in Records :
         fr' = [FrIdle EXCEPT !.caller = caller, !.record = record,
                              !.flat = flatten_record(record),
                              !.handed = HandedRecord(caller, record)]
    /\ pc' = "fr_flat"
    /\ UNCHANGED <<lm, fd, nid, dv, mw, registry, calls>>

\* flatten_record applied to a record it returned
fr_again ==
    /\ pc = "fr_flat"
    /\ fr' = [fr EXCEPT !.again = flatten_record(fr.flat)]
    /\ pc' = "done"
    /\ UNCHANGED <<lm, fd, nid, dv, mw, registry, calls>>

-----------------------------------------------------------------------------
(* _list_report_types (lines 1198-1296) *)

\* None, and `a or b` on two values
None == Scalar(<<>>)

Or(a, b) == IF a # None THEN a ELSE b

\* report types as the analytics endpoint describes them
AccountList ==
    Dict(<< <<"name", Scalar(<<"A", "c", "c">>)>>, <<"label", Scalar(<<"A", "C">>)>>,
            <<"developerName", Scalar(<<"a", "l">>)>> >>)

CaseList ==
    Dict(<< <<"name", Scalar(<<"c", "x", "b">>)>>, <<"category", Scalar(<<"s">>)>> >>)

\* a category: a label and the report types under it
Category(label, report_types) ==
    Dict(<< <<"label", Scalar(label)>>, <<"reportTypes", List(report_types)>> >>)

\* a category whose reportTypes is null in the response
EmptyCategory(label) ==
    Dict(<< <<"label", Scalar(label)>>, <<"reportTypes", None>> >>)

\* the bodies of the response: categories under reportTypeCategories, a bare
\* list of categories one of which holds a category of its own, a mapping
\* with neither key, and a list with a category whose reportTypes is null
ReportTypePayloads ==
    { Dict(<< <<"reportTypeCategories",
                List(<< Category(<<"m", "e">>, <<AccountList, CaseList>>),
                        Category(<<"o">>, <<CaseList>>) >>)>> >>),
      List(<< Category(<<"m", "e">>,
                       << Category(<<>>, <<AccountList>>), CaseList >>) >>),
      Dict(<< <<"totalSize", Scalar(<<"0">>)>> >>),
      List(<< Category(<<"m", "e">>, <<AccountList>>), EmptyCategory(<<"o">>) >>) }

\* the list the walk starts from
CategoriesPayload(payload) ==
    IF payload.t = "list" THEN payload
    ELSE IF payload.t = "dict"
    THEN LET categories == Or(Get(payload, "reportTypeCategories", None),
                              Get(payload, "reportTypes", None))
         IN IF categories # None THEN categories ELSE List(<<>>)
    ELSE List(<<>>)

\* record = node.copy(); the category label is filled in where the node has none
TaggedRecord(node, category_label) ==
    IF category_label # None /\ Get(node, "category", None) = None
    THEN Dict(Assign(node.items, "category", category_label))
    ELSE node

RECURSIVE WalkStack(_, _)
\* `while stack: node, category_label = stack.pop() ...`, with the flat list it
\* fills passed through
WalkStack(stack, flat_report_types) ==
    IF stack = <<>> THEN flat_report_types
    ELSE LET node == stack[Len(stack)][1]
             category_label == stack[Len(stack)][2]
             rest == SubSeq(stack, 1, Len(stack) - 1)
         IN IF node.t = "dict"
            THEN IF Get(node, "reportTypes", None) # None
                 THEN WalkStack(
                        Append(rest,
                               << Get(node, "reportTypes", None),
                                  Or(Or(Get(node, "label", None), Get(node, "name", None)),
                                     category_label) >>),
                        flat_report_types)
                 ELSE WalkStack(rest, Append(flat_report_types,
                                             TaggedRecord(node, category_label)))
            ELSE IF node.t = "list"
            THEN WalkStack(rest \o [i \in 1..Len(node.items) |->
                                      <<node.items[i], category_label>>],
                           flat_report_types)
            ELSE WalkStack(rest, flat_report_types)

\* the name filter over name, label, developerName and category
ReportTypeMatches(item, lowered) ==
    \E key \in {"name", "label", "developerName", "category"} :
        Contains(lower(Get(item, key, None).v), lowered)

\* the record listed for a report type
ReportTypeRow(item) ==
    Dict(<< <<"Name", Or(Get(item, "label", None), Get(item, "name", None))>>,
            <<"DeveloperName", Get(item, "developerName", None)>>,
            <<"Category", Get(item, "category", None)>>,
            <<"Description", Get(item, "description", None)>>,
            <<"DataType", Get(item, "dataCategory", None)>>,
            <<"SupportsDashboard", Get(item, "supportsDashboard", None)>>,
            <<"SupportsCharting", Get(item, "supportsCharting", None)>>,
            <<"DetailUrl", Get(item, "url", None)>>,
            <<"FullName", Get(item, "name", None)>> >>)

ReportTypeColumns ==
    <<"Name", "DeveloperName", "Category", "Description", "DataType",
      "SupportsDashboard", "SupportsCharting", "FullName">>

\* the records made of a response body
ReportTypeRecords(payload, name_filter) ==
    LET flat_report_types == WalkStack(<< <<CategoriesPayload(payload), None>> >>, <<>>)
        filtered == IF name_filter # <<>>
                    THEN SelectSeq(flat_report_types,
                                   LAMBDA item : ReportTypeMatches(item, lower(name_filter)))
                    ELSE flat_report_types
    IN [i \in 1..Len(filtered) |-> ReportTypeRow(filtered[i])]

\* the one GET of the report-type handler and the payload made of its response
lm_report_types ==
    /\ pc = "lm_report_types"
    /\ \E outcome \in Outcomes, payload \in ReportTypePayloads :
         LET records == ReportTypeRecords(payload, lm.name_filter)
         IN /\ calls' = Append(calls,
                   [req |-> "report_types", url |-> "/analytics/reportTypes",
                    outcome |-> outcome,
                    records |-> IF outcome = "ok" THEN payload ELSE None])
            /\ IF outcome # "ok"
               THEN lm_raise(lm, PostFailure(outcome))
               ELSE /\ lm' = [lm EXCEPT !.records = records,
                                        !.payload = [records |-> records, done |-> TRUE,
                                                     nextRecordsUrl |-> 0],
                                        !.columns = ReportTypeColumns,
                                        !.total_size = Len(records),
                                        !.returned = TRUE]
                    /\ pc' = "done"
    /\ UNCHANGED <<fd, fr, nid, dv, mw, registry>>

-----------------------------------------------------------------------------
(* Specifications *)

-----------------------------------------------------------------------------
(* Data views (data/views.py): one DataOperation row per submitted batch *)

\* most records in one submitted batch
MaxRecords == 3

\* the views that record a DataOperation; create_record_view has two modes
DataViews ==
    {"create_record_view.single", "create_record_view.csv", "insert_view",
     "update_view", "delete_view", "upsert_view", "undelete_view"}

\* how the remote call for one record ends: it returns, the client raises
\* SalesforceAPIError, or anything else is raised (a connection error, a
\* TypeError of the client library)
RemoteOutcomes == {"ok", "SalesforceAPIError", "Exception"}

\* what a create call returns: the body of the 201 response, or a body
\* without a 'success' key
Results == {[id |-> "001", success |-> "True"], [id |-> "001", success |-> "absent"]}

\* result.get('success', True)
ResultSuccess(result) == result.success \in {"True", "absent"}

\* only SalesforceAPIError sends the record to errors
LandsInErrorsApiErrorOnly(view, outcome, has_id) == outcome = "SalesforceAPIError"

\* the record of one loop round ends in errors: both except clauses of
\* create_record_view and the `except Exception` of the other views append to
\* errors; update_view raises KeyError at record.pop('Id') for a record without Id
LandsInErrors(view, outcome, has_id) ==
    outcome # "ok" \/ (view = "update_view" /\ ~has_id)

\* DataOperation.objects.create(record_count=len(records),
\*     success_count=len(results), error_count=len(errors)) of the loop views
LoopRow(view, records, results, errors) ==
    [view |-> view, record_count |-> records,
     success_count |-> Len(results), error_count |-> Len(errors)]

\* the three DataOperation.objects.create calls of the single mode
SingleRow(outcome, result) ==
    IF outcome = "ok"
    THEN [view |-> "create_record_view.single", record_count |-> 1,
          success_count |-> IF ResultSuccess(result) THEN 1 ELSE 0,
          error_count |-> IF ResultSuccess(result) THEN 0 ELSE 1]
    ELSE [view |-> "create_record_view.single", record_count |-> 1,
          success_count |-> 0, error_count |-> 1]

\* records is the number of records submitted, tried the remote calls made so
\* far, operations the DataOperation rows
DvIdle ==
    [view |-> "", records |-> 0, results |-> <<>>, errors |-> <<>>,
     tried |-> <<>>, operations |-> <<>>]

\* a POST with its batch reaches a view; the single mode and the CSV mode of
\* create_record_view answer 400 to an empty batch before any row is written,
\* the other views write the row of an empty batch
dv_submit ==
    /\ pc = "idle"
    /\ \E view \in DataViews, records \in 0..MaxRecords :
         LET d0 == [DvIdle EXCEPT !.view = view, !.records = records]
         IN /\ view = "create_record_view.single" => records <= 1
            /\ IF records = 0
               THEN /\ dv' = IF view \in {"create_record_view.single",
                                          "create_record_view.csv"}
                             THEN d0
                             ELSE [d0 EXCEPT !.operations =
                                      <<LoopRow(view, 0, <<>>, <<>>)>>]
                    /\ pc' = "done"
               ELSE dv' = d0 /\ pc' = "dv_record"
    /\ UNCHANGED <<lm, fd, fr, nid, mw, registry, calls>>

\* the remote call for the next record; after the last one the row is written
dv_record ==
    /\ pc = "dv_record"
    /\ \E outcome \in RemoteOutcomes, has_id \in BOOLEAN, result \in Results :
         LET i == Len(dv.tried) + 1
             failed == LandsInErrors(dv.view, outcome, has_id)
             called == ~(dv.view = "update_view" /\ ~has_id)
             d1 == [dv EXCEPT !.tried = Append(@, [outcome |-> outcome, called |-> called]),
                              !.results = IF failed THEN @ ELSE Append(@, i),
                              !.errors = IF failed THEN Append(@, i) ELSE @]
         IN /\ dv.view # "update_view" => has_id
            /\ outcome # "ok" => result.success = "True"
            /\ dv.view # "create_record_view.single" => result.success = "True"
            /\ IF dv.view = "create_record_view.single"
               THEN /\ dv' = [d1 EXCEPT !.operations = <<SingleRow(outcome, result)>>]
                    /\ pc' = "done"
               ELSE IF i = dv.records
               THEN /\ dv' = [d1 EXCEPT !.operations =
                                 <<LoopRow(dv.view, dv.records, d1.results, d1.errors)>>]
                    /\ pc' = "done"
               ELSE dv' = d1 /\ pc' = "dv_record"
    /\ UNCHANGED <<lm, fd, fr, nid, mw, registry, calls>>

-----------------------------------------------------------------------------
(* SalesforceSessionMiddleware, the connections it reads and the views that
   write the session key (src/authentication) *)

\* connection rows the database can hold, and the reach of the clock
MaxConnections == 2
MaxClock == 2

\* browser sessions
Sessions == {"s1", "s2"}

\* a path as its slashes and the names between them
Path(names) == [i \in 1..(2 * Len(names) + 1) |->
                   IF i % 2 = 1 THEN "/" ELSE names[i \div 2]]

\* a path whose last name is not followed by a slash
PathNoSlash(names) == SubSeq(Path(names), 1, 2 * Len(names))

\* str.startswith
startswith(text, prefix) ==
    /\ Len(prefix) <= Len(text)
    /\ SubSeq(text, 1, Len(prefix)) = prefix

\* self.exempt_urls
exempt_urls == <<
    Path(<<"auth", "login">>),
    Path(<<"auth", "callback">>),
    Path(<<"auth", "logout">>),
    Path(<<"auth", "health">>),
    Path(<<"admin">>),
    Path(<<"static">>),
    Path(<<"media">>),
    Path(<<"query", "api">>) >>

\* any(request.path.startswith(url) for url in self.exempt_urls)
IsExempt(path) == \E i \in 1..Len(exempt_urls) : startswith(path, exempt_urls[i])

\* the paths requested, the logout page apart: a page of the application, a
\* page below /auth/ that is not exempt, an API endpoint, a static file, and
\* /admin without its slash
RequestPaths == {
    Path(<<"query">>),
    Path(<<"auth", "session">>),
    Path(<<"query", "api", "run">>),
    PathNoSlash(<<"static", "app.css">>),
    PathNoSlash(<<"admin">>) }

\* the values of expires_at: None, or a time
ExpiresAt == {<<>>} \cup {<<t>> : t \in 1..(MaxClock - 1)}

\* an id no row was ever stored under, a stored row, a deleted row
NoRow == [row |-> "none", is_active |-> FALSE, expires_at |-> <<>>]

\* SalesforceConnection.is_expired
is_expired(connection, now) ==
    IF connection.expires_at = <<>> THEN FALSE
    ELSE now > connection.expires_at[1]

\* SalesforceConnection.objects.get(id=connection_id), with every row taken
GetAnyRow(connections, connection_id) ==
    IF connections[connection_id].row = "stored" THEN <<connection_id>> ELSE <<>>

\* SalesforceConnection.objects.get(id=connection_id, is_active=True): the id
\* found, or nothing for DoesNotExist
GetActive(connections, connection_id) ==
    IF /\ connections[connection_id].row = "stored"
       /\ connections[connection_id].is_active
    THEN <<connection_id>> ELSE <<>>

\* SalesforceConnection.objects.get(id=connection_id)
GetById(connections, connection_id) ==
    IF connections[connection_id].row = "stored" THEN <<connection_id>> ELSE <<>>

\* no request has just been answered
NoRequest == [kind |-> "none", session |-> "", path |-> <<>>, held |-> 0,
              before |-> NoRow, now |-> 0, response |-> "", sf_connection |-> 0]

\* the request just answered: the session key it came with, the row under
\* that id and the time when it came, the response, and request.sf_connection
Answered(session, path, held, before, now, response, sf_connection) ==
    [kind |-> "request", session |-> session, path |-> path, held |-> held,
     before |-> before, now |-> now, response |-> response,
     sf_connection |-> sf_connection]

MwIdle == [now |-> 0,
           connections |-> [id \in 1..MaxConnections |-> NoRow],
           session |-> [s \in Sessions |-> 0],
           last |-> NoRequest]

\* SalesforceSessionMiddleware.__call__ for one request: the state it leaves
\* and the request as answered
MiddlewareCall(m, s, path) ==
    LET connection_id == m.session[s]
        before == IF connection_id = 0 THEN NoRow ELSE m.connections[connection_id]
        found == IF connection_id = 0 THEN <<>>
                 ELSE GetActive(m.connections, connection_id)
    IN IF IsExempt(path)
       THEN [m EXCEPT !.last =
                Answered(s, path, connection_id, before, m.now, "view",
                         IF /\ startswith(path, Path(<<"query", "api">>))
                            /\ found # <<>>
                         THEN found[1] ELSE 0)]
       ELSE IF connection_id = 0
       THEN [m EXCEPT !.last =
                Answered(s, path, 0, before, m.now,
                         IF ~startswith(path, Path(<<"auth">>))
                         THEN "redirect" ELSE "view", 0)]
       ELSE IF found = <<>>
       THEN [m EXCEPT !.session[s] = 0,
                      !.last = Answered(s, path, connection_id, before, m.now,
                                        "redirect", 0)]
       ELSE IF is_expired(m.connections[found[1]], m.now)
       THEN [m EXCEPT !.connections[found[1]].is_active = FALSE,
                      !.session[s] = 0,
                      !.last = Answered(s, path, connection_id, before, m.now,
                                        "redirect", found[1])]
       ELSE [m EXCEPT !.last = Answered(s, path, connection_id, before, m.now,
                                        "view", found[1])]

\* a request of a session to a page whose view leaves connections and
\* session alone
mw_request ==
    /\ \E s \in Sessions, path \in RequestPaths :
         mw' = MiddlewareCall(mw, s, path)
    /\ UNCHANGED <<pc, lm, fd, fr, nid, dv, registry, calls>>

\* a login that succeeded (LoginView._handle_standard_login): the middleware
\* lets /auth/login/ through, the view stores a row for a new user or makes
\* the user's row active again, and writes its id to the session
mw_login ==
    /\ \E s \in Sessions, id \in 1..MaxConnections :
         LET m == MiddlewareCall(mw, s, Path(<<"auth", "login">>))
         IN /\ m.connections[id].row # "deleted"
            /\ m.connections[id].row = "none" =>
                 \A j \in 1..(id - 1) : m.connections[j].row # "none"
            /\ mw' = [m EXCEPT
                 !.connections[id] =
                     IF @.row = "none"
                     THEN [row |-> "stored", is_active |-> TRUE, expires_at |-> <<>>]
                     ELSE [@ EXCEPT !.is_active = TRUE],
                 !.session[s] = id,
                 !.last = NoRequest]
    /\ UNCHANGED <<pc, lm, fd, fr, nid, dv, registry, calls>>

\* LogoutView.post behind the middleware, which lets /auth/logout/ through:
\* the session's connection is made inactive and the session is flushed
mw_logout ==
    /\ \E s \in Sessions :
         LET m == MiddlewareCall(mw, s, Path(<<"auth", "logout">>))
             connection_id == m.session[s]
             found == IF connection_id = 0 THEN <<>>
                      ELSE GetById(m.connections, connection_id)
         IN mw' = [m EXCEPT
              !.connections = IF found = <<>> THEN @
                              ELSE [@ EXCEPT ![found[1]].is_active = FALSE],
              !.session[s] = 0,
              !.last = NoRequest]
    /\ UNCHANGED <<pc, lm, fd, fr, nid, dv, registry, calls>>

\* the admin site (SalesforceConnectionAdmin): is_active and expires_at of a
\* stored row are edited, or the row is deleted
mw_admin ==
    /\ \E id \in 1..MaxConnections :
         /\ mw.connections[id].row = "stored"
         /\ \/ \E is_active \in BOOLEAN, expires_at \in ExpiresAt :
                 mw' = [mw EXCEPT
                     !.connections[id] = [row |-> "stored", is_active |-> is_active,
                                          expires_at |-> expires_at],
                     !.last = NoRequest]
            \/ mw' = [mw EXCEPT
                     !.connections[id] = [NoRow EXCEPT !.row = "deleted"],
                     !.last = NoRequest]
    /\ UNCHANGED <<pc, lm, fd, fr, nid, dv, registry, calls>>

\* time passes (timezone.now())
mw_tick ==
    /\ mw.now < MaxClock
    /\ mw' = [mw EXCEPT !.now = @ + 1, !.last = NoRequest]
    /\ UNCHANGED <<pc, lm, fd, fr, nid, dv, registry, calls>>

\* the call is over and its caller makes the next one: the locals of the call
\* are gone, the module's globals stay as the call left them
next_call ==
    /\ pc = "done"
    /\ pc' = "idle"
    /\ lm' = LmIdle
    /\ fd' = FdIdle
    /\ calls' = <<>>
    /\ UNCHANGED <<fr, nid, dv, mw, registry>>

\* a step of a call that another request makes at the same time: of its state
\* only what it leaves in the module's globals is seen by this call
concurrent_call ==
    /\ \E metadata_type \in TypeNames :
         registry' \in {RegistryAfterPreferred(metadata_type),
                        RegistryAfterMetadataQuery(metadata_type),
                        RegistryAfterLookup(metadata_type)}
    /\ UNCHANGED <<pc, lm, fd, fr, nid, dv, mw, calls>>

Init ==
    /\ pc = "idle"
    /\ lm = LmIdle
    /\ fd = FdIdle
    /\ fr = FrIdle
    /\ nid = NidIdle
    /\ registry = TypeRegistry
    /\ dv = DvIdle
    /\ mw = MwIdle
    /\ calls = <<>>

NextList ==
    lm_start \/ lm_describe \/ lm_query \/ lm_more \/ lm_post \/ lm_report_types

NextDetail ==
    fd_start \/ fd_report_type \/ fd_direct \/ fd_lookup \/ fd_full \/ fd_enrich

NextFlatten == fr_flatten \/ fr_again

NextNormalize == nz_normalize \/ nz_again

NextData == dv_submit \/ dv_record

NextSession == mw_request \/ mw_login \/ mw_logout \/ mw_admin \/ mw_tick

NextCalls == NextList \/ NextDetail \/ next_call \/ concurrent_call

Next == NextList \/ NextDetail \/ NextFlatten \/ NextNormalize

\* one list_metadata call
SpecList == Init /\ [][NextList]_vars

\* the steps of a list_metadata call after its entry
ListSteps == lm_describe \/ lm_query \/ lm_more \/ lm_post \/ lm_report_types

\* one list_metadata call that is not held up once entered: every request it
\* makes is answered or fails, and the code goes on (the function is
\* synchronous and each request has a timeout)
SpecListFair == SpecList /\ WF_vars(ListSteps)

\* one fetch_metadata_detail call
SpecDetail == Init /\ [][NextDetail]_vars

\* flatten_record on one record
SpecFlatten == Init /\ [][NextFlatten]_vars

\* _to_18_char_id on one identifier
SpecNormalize == Init /\ [][NextNormalize]_vars

\* one batch submitted to a data view
SpecData == Init /\ [][NextData]_vars

\* requests of several sessions through the middleware, the admin site and
\* the clock
SpecSession == Init /\ [][NextSession]_vars

\* list and detail calls one after the other, with the calls of other requests
\* running at the same time
SpecCalls == Init /\ [][NextCalls]_vars

\* one call of any of them
Spec == Init /\ [][Next]_vars


-----------------------------------------------------------------------------
(* Properties of list_metadata *)

\* the page requests of the transport log, in the order they were made
PageCalls == SelectSeq(calls, LAMBDA c : c.req \in {"query", "queryMore"})

RECURSIVE ConcatRecords(_)
\* the records of the answered page requests, page after page
ConcatRecords(page_calls) ==
    IF page_calls = <<>> THEN <<>>
    ELSE (IF Head(page_calls).outcome = "ok" THEN Head(page_calls).records ELSE <<>>)
         \o ConcatRecords(Tail(page_calls))

\* an unlimited call of which every request succeeded has returned
ListedEverything ==
    /\ pc = "done"
    /\ lm.returned
    /\ lm.limit = 0
    /\ \A i \in 1..Len(calls) : calls[i].outcome = "ok"

\* C1: an unlimited list call whose first query and follow-up fetches all succeed
\* fetches the pages in order (page k + 1 right after page k), returns the
\* concatenation of their records in page order, and returns done == true.
C1_PaginationExhaustion ==
    ListedEverything =>
        /\ \A i \in 1..Len(PageCalls) :
              PageCalls[i].url = (IF i = 1 THEN 0 ELSE i)
        /\ lm.payload.records = ConcatRecords(PageCalls)
        /\ lm.payload.done = TRUE

\* the part of C1 about the records alone
C1_RecordsInPageOrder ==
    ListedEverything =>
        /\ \A i \in 1..Len(PageCalls) :
              PageCalls[i].url = (IF i = 1 THEN 0 ELSE i)
        /\ lm.payload.records = ConcatRecords(PageCalls)

\* C2: when the fetch of page k + 1 fails after pages 1..k succeeded, list_metadata
\* does not raise, returns the records of pages 1..k in order, and makes no further
\* request (the failed fetch is the last one: no retry, no later page).
C2_TruncatesAtFailedPage ==
    \A i \in 1..Len(calls) :
        (calls[i].req = "queryMore" /\ calls[i].outcome # "ok") =>
            /\ i = Len(calls)
            /\ pc = "done"
            /\ lm.raised = ""
            /\ lm.returned
            /\ lm.payload.records = ConcatRecords(PageCalls)

\* the same for the one failure the loop catches, an HTTP error status
C2_TruncatesAtHTTPError ==
    \A i \in 1..Len(calls) :
        (calls[i].req = "queryMore" /\ calls[i].outcome = "http_error") =>
            /\ i = Len(calls)
            /\ pc = "done"
            /\ lm.raised = ""
            /\ lm.returned
            /\ lm.payload.records = ConcatRecords(PageCalls)

\* a list without a repeated entry
NoRepeat(seq) == \A i, j \in 1..Len(seq) : seq[i] = seq[j] => i = j

\* the list call is on the query-language path, in fields mode, and has built
\* its query
BuiltInFieldsMode == lm.soql # NoSoql /\ ~lm.use_fields_all

\* C12: in fields mode the projected field list never has more than 12 entries
\* and always contains Id, whatever fields are available, in particular for a
\* type without a registry entry and with more than 12 available fields.
C12_ProjectionCap ==
    BuiltInFieldsMode =>
        /\ Len(lm.soql_fields) <= 12
        /\ InSeq("Id", lm.soql_fields)
        /\ lm.soql.select = lm.soql_fields
        /\ \A i \in 1..Len(calls) :
              calls[i].req = "query" =>
                 Len(calls[i].soql.select) <= 12 /\ InSeq("Id", calls[i].soql.select)

\* a type without a registry entry, 13 available fields, and the query sent
C12_Witness ==
    /\ lm.metadata_type = "Flow"
    /\ Len(lm.fields) > 12
    /\ Len(lm.soql_fields) = 12
    /\ \E i \in 1..Len(calls) :
          calls[i].req = "query" /\ calls[i].outcome = "ok"
          /\ calls[i].soql.select = lm.soql_fields

\* C13: neither the projected field list of a query nor the columns list a list
\* call returns contains the same field name twice, whatever the type and the
\* available fields, a repeated name among them included.
C13_NoRepeatedField ==
    /\ NoRepeat(lm.soql_fields)
    /\ NoRepeat(lm.display_columns)
    /\ \A i \in 1..Len(calls) : calls[i].req = "query" => NoRepeat(calls[i].soql.select)
    /\ (pc = "done" /\ lm.returned) => NoRepeat(lm.columns)

\* a describe response that names a field twice
C13_Witness ==
    /\ pc = "done" /\ lm.returned
    /\ ~NoRepeat(lm.fields)
    /\ lm.soql_fields = <<"Id", "Name", "MasterLabel">>
    /\ lm.columns = <<"Name", "MasterLabel">>

\* the filter text occurs in a text, ignoring case
Occurs(filter_text, text) == Contains(lower(text), lower(filter_text))

\* the fields of a record the name filter of the query path looks at
FilterableFields ==
    {"Label", "QualifiedApiName", "DeveloperName", "Name", "FullName"}
        \cap FieldNames(lm.fields)

\* the rows of the table the answered page requests went over
RowsListed ==
    UNION { { <<(IF calls[i].url = 0 THEN 1 ELSE calls[i].url), j>> :
                j \in 1..calls[i].rows } :
            i \in {k \in 1..Len(calls) :
                     calls[k].req \in {"query", "queryMore"} /\ calls[k].outcome = "ok"} }

\* a filtered list call outside all-fields mode has returned
FilteredListReturned ==
    pc = "done" /\ lm.returned /\ lm.name_filter # <<>> /\ ~lm.use_fields_all

\* the records returned are those with the filter text in a filterable field
ReturnsTheMatches ==
    CASE ListPath(lm.metadata_type) = "query" ->
           \A record \in RowsListed :
               InSeq(record, lm.payload.records)
                 <=> \E field \in FilterableFields :
                        Occurs(lm.name_filter, RowOf(record)[field])
      [] ListPath(lm.metadata_type) = "metadata_api" ->
           \A i \in 1..Len(calls[1].records) :
               LET entry == calls[1].records[i]
               IN InSeq(entry, lm.payload.records)
                    <=> \E j \in 1..Len(entry) : Occurs(lm.name_filter, entry[j][2])
      [] OTHER -> TRUE

C14_NameFilterOfPlainText ==
    (/\ FilteredListReturned
     /\ ListPath(lm.metadata_type) = "query" => FilterableFields # {}
     /\ \A i \in 1..Len(lm.name_filter) : lm.name_filter[i] \notin {"_", "%", "\\", "'"})
        => ReturnsTheMatches

\* the place of a key in the order of sorted()
Rank(key) == CHOOSE i \in 1..Len(KeyOrder) : KeyOrder[i] = key

\* C15: for a type with a metadata-API fallback, a list call with no name filter
\* and no limit issues exactly one POST to the configured endpoint, no describe
\* and no query request, and returns columns equal to the sorted union of the
\* keys of all returned entries.
C15_MetadataApiList ==
    (/\ pc = "done"
     /\ Override(lm.metadata_type).metadata_endpoint # ""
     /\ Override(lm.metadata_type).custom_list_handler = ""
     /\ lm.name_filter = <<>>
     /\ lm.limit = 0) =>
        /\ Len(calls) = 1
        /\ calls[1].req = "post"
        /\ calls[1].url = "/services/data/v{api_version}/metadata/listMetadata"
        /\ lm.returned =>
              /\ lm.payload.records = calls[1].records
              /\ {lm.columns[i] : i \in 1..Len(lm.columns)} = KeyUnion(lm.payload.records)
              /\ \A i, j \in 1..Len(lm.columns) :
                    i < j => Rank(lm.columns[i]) < Rank(lm.columns[j])

\* two entries whose keys overlap and come in another order than the sorted one
C15_Witness ==
    /\ pc = "done"
    /\ lm.returned
    /\ lm.metadata_type = "DuplicateRule"
    /\ lm.name_filter = <<>>
    /\ lm.limit = 0
    /\ Len(calls) = 1
    /\ calls[1].req = "post"
    /\ Len(lm.payload.records) = 2
    /\ lm.payload.records[1][1][1] = "type"
    /\ lm.columns = <<"createdDate", "fullName", "id", "type">>

\* the WHERE clause of a query has the type's filter expression, in
\* parentheses, as one of its conjuncts
HasTypeFilter(soql, metadata_type) ==
    \E k \in 1..Len(soql.where) :
        /\ soql.where[k].kind = "expression"
        /\ soql.where[k].expression
             = "(" \o METADATA_TYPE_OVERRIDES[metadata_type].query_filter \o ")"

\* the types whose registry entry has a query_filter
FilteredTypes ==
    {t \in DOMAIN METADATA_TYPE_OVERRIDES : METADATA_TYPE_OVERRIDES[t].query_filter # ""}

\* C19: for a type whose entry has a filter expression, every list query sent for
\* it contains that expression as a parenthesised conjunct of its WHERE clause,
\* however the field list was obtained (static fields, describe, describe failure).
C19_TypeFilterInEveryQuery ==
    lm.metadata_type \in FilteredTypes =>
        \A i \in 1..Len(calls) :
            calls[i].req = "query" => HasTypeFilter(calls[i].soql, lm.metadata_type)

\* what the code does there: the expression is in every query of fields mode
C19_TypeFilterInFieldsMode ==
    (lm.metadata_type \in FilteredTypes /\ ~lm.use_fields_all) =>
        \A i \in 1..Len(calls) :
            calls[i].req = "query" => HasTypeFilter(calls[i].soql, lm.metadata_type)

\* the kinds of request a list call has sent so far
RequestKinds == {calls[i].req : i \in 1..Len(calls)}

\* the kinds of request each listing path sends
QueryPathKinds == {"describe", "query", "queryMore"}

\* C20: a list request runs exactly one listing path, the custom handler before
\* the metadata-API fallback before the query path: a type with a custom handler
\* sends no POST, describe or query, a metadata-API type sends no describe or
\* query, and the other types send neither the handler's GET nor the POST.
C20_OneListingPath ==
    LET override == Override(lm.metadata_type)
    IN /\ IF override.custom_list_handler = "report_type"
          THEN RequestKinds \subseteq {"report_types"}
          ELSE IF override.metadata_endpoint # ""
          THEN RequestKinds \subseteq {"post"}
          ELSE RequestKinds \subseteq QueryPathKinds
       /\ (pc = "done" /\ lm.returned) => RequestKinds # {}
       /\ Cardinality({i \in 1..Len(calls) : calls[i].req \in {"post", "report_types"}}) <= 1

\* a metadata-API type whose entry says nothing about describe has been listed
\* with its one POST, and a name filter was applied to the entries
C20_Witness ==
    /\ pc = "done"
    /\ lm.returned
    /\ lm.metadata_type = "DuplicateRule"
    /\ lm.name_filter = <<"A", "C">>
    /\ RequestKinds = {"post"}
    /\ Len(calls) = 1
    /\ Len(lm.payload.records) = 1

\* C21: every result a list call returns has done = true if and only if it
\* carries no continuation token, also after several pages were followed, after a
\* truncated pagination and when an explicit limit stopped the following.
C21_DoneIffNoToken ==
    (pc = "done" /\ lm.returned) =>
        (lm.payload.done <=> lm.payload.nextRecordsUrl = 0)

\* what the code does there: the result never carries a token, and on the query
\* path its done is the done of the first page
C21_DoneOfFirstPage ==
    LET followed == \E i \in 1..Len(calls) : calls[i].req = "queryMore"
    IN (pc = "done" /\ lm.returned) =>
           /\ lm.payload.nextRecordsUrl = 0
           /\ ListPath(lm.metadata_type) = "query" =>
                /\ lm.payload.done => ~followed
                /\ (lm.limit = 0 /\ ~followed) => lm.payload.done

\* the describe call of the list call was made and raised SalesforceAPIError
DescribeFailed ==
    \E i \in 1..Len(calls) :
        calls[i].req = "describe" /\ rest_request(calls[i].outcome) = "SalesforceAPIError"

\* C27: list_metadata is in all-fields mode exactly when describe is enabled,
\* the describe call fails and the entry has no static field list; the query is
\* then SELECT FIELDS(ALL) FROM <type> with at most a LIMIT, without WHERE and
\* ORDER BY whatever name filter, filter expression and order field there are;
\* in every other case the query names an explicit field list.
C27_AllFieldsMode ==
    LET entry == IF lm.metadata_type \in DOMAIN METADATA_TYPE_OVERRIDES
                 THEN METADATA_TYPE_OVERRIDES[lm.metadata_type] ELSE EmptyOverride
        all_fields == entry.describe /\ DescribeFailed /\ entry.query_fields = <<>>
    IN \A i \in 1..Len(calls) :
           calls[i].req = "query" =>
               LET soql == calls[i].soql
               IN /\ soql.from = ToolingType(lm.metadata_type)
                  /\ soql.limit = lm.limit
                  /\ IF all_fields
                     THEN /\ soql.select = <<"FIELDS(ALL)">>
                          /\ soql.where = <<>>
                          /\ soql.order_by = ""
                     ELSE /\ soql.select # <<>>
                          /\ \A k \in 1..Len(soql.select) :
                                 soql.select[k] \in FieldNames(lm.fields) \cup {"Id"}

\* a type with a filter expression and an order field was listed with a name
\* filter and a limit after its describe call failed
C27_Witness ==
    /\ pc = "done"
    /\ lm.returned
    /\ lm.metadata_type = "ApprovalProcess"
    /\ lm.name_filter = <<"A", "C">>
    /\ lm.limit = 1
    /\ Len(calls) = 2
    /\ calls[1].req = "describe" /\ calls[1].outcome = "conn_error"
    /\ calls[2].req = "query"
    /\ calls[2].soql.select = <<"FIELDS(ALL)">>
    /\ calls[2].soql.limit = 1

\* the label a category node hands down: its label, else its name, else the
\* one handed to it
LabelBelow(node, category_label) ==
    Or(Or(Get(node, "label", None), Get(node, "name", None)), category_label)

\* the rows of a tree read top-down, a leaf being a mapping without a
\* reportTypes key: its own category when it has one, else the label handed down
RECURSIVE LeafRows(_, _)
LeafRows(node, category_label) ==
    IF node.t = "dict"
    THEN IF HasKey(node, "reportTypes")
         THEN LeafRows(Get(node, "reportTypes", None), LabelBelow(node, category_label))
         ELSE << TaggedRecord(node, category_label) >>
    ELSE IF node.t = "list"
    THEN LET RECURSIVE OfItems(_)
             OfItems(k) == IF k = 0 THEN <<>>
                           ELSE OfItems(k - 1) \o LeafRows(node.items[k], category_label)
         IN OfItems(Len(node.items))
    ELSE <<>>

\* the same with a leaf being a mapping whose reportTypes is absent or null
RECURSIVE LeafRowsOfLists(_, _)
LeafRowsOfLists(node, category_label) ==
    IF node.t = "dict"
    THEN IF Get(node, "reportTypes", None) # None
         THEN LeafRowsOfLists(Get(node, "reportTypes", None),
                              LabelBelow(node, category_label))
         ELSE << TaggedRecord(node, category_label) >>
    ELSE IF node.t = "list"
    THEN LET RECURSIVE OfItems(_)
             OfItems(k) == IF k = 0 THEN <<>>
                           ELSE OfItems(k - 1)
                                \o LeafRowsOfLists(node.items[k], category_label)
         IN OfItems(Len(node.items))
    ELSE <<>>

\* two lists hold the same items the same number of times
SameItems(a, b) ==
    /\ Len(a) = Len(b)
    /\ \A x \in {a[i] : i \in 1..Len(a)} :
           Cardinality({i \in 1..Len(a) : a[i] = x})
             = Cardinality({i \in 1..Len(b) : b[i] = x})

\* the flat list the work-stack loop made of the response of a list call
WalkedResponses ==
    {i \in 1..Len(calls) : calls[i].req = "report_types" /\ calls[i].outcome = "ok"}

\* C28: for any finite category tree the work-stack loop ends and yields exactly
\* one row per leaf mapping (a mapping without a reportTypes key), tagged with
\* its own category when it has one and otherwise with the label (or name) of
\* its nearest enclosing category node.
C28_OneRowPerLeaf ==
    \A i \in WalkedResponses :
        LET root == CategoriesPayload(calls[i].records)
        IN SameItems(WalkStack(<< <<root, None>> >>, <<>>), LeafRows(root, None))

\* what the code does: a mapping is a leaf when its reportTypes is absent or null
C28_OneRowPerLeafOrNull ==
    \A i \in WalkedResponses :
        LET root == CategoriesPayload(calls[i].records)
        IN SameItems(WalkStack(<< <<root, None>> >>, <<>>), LeafRowsOfLists(root, None))

\* the fetches of a list call are those the tokens ask for: the page request
\* number i, for i >= 2, is the fetch of the token that page i - 1 returned; no
\* request follows a failed page request; a call with a limit fetches no token
FetchesFollowTokens ==
    /\ \A i \in 1..Len(PageCalls) :
           /\ PageCalls[i].req = (IF i = 1 THEN "query" ELSE "queryMore")
           /\ PageCalls[i].url = (IF i = 1 THEN 0 ELSE i)
           /\ PageCalls[i].outcome # "ok" => (i = Len(PageCalls) /\ pc = "done")
    /\ pc = "lm_more" => (lm.next_records_url = Len(PageCalls) + 1 /\ lm.limit = 0)
    /\ (pc = "done" /\ lm.returned /\ ListPath(lm.metadata_type) = "query") =>
           \/ lm.next_records_url = 0
           \/ lm.limit # 0
           \/ PageCalls[Len(PageCalls)].outcome # "ok"
    /\ lm.limit # 0 => Len(PageCalls) <= 1

\* C29: an unlimited list call ends after finitely many continuation fetches
\* when the server's chain of tokens is finite: each returned token is fetched
\* at most once, in the order received, no fetch is made after a page without a
\* token or after a failed fetch, and with a limit no continuation is fetched.
C29_PaginationTerminates ==
    []FetchesFollowTokens /\ ((pc # "idle") ~> (pc = "done"))

\* an unlimited call followed the chain of tokens to its end
C29_Witness ==
    /\ pc = "done"
    /\ lm.returned
    /\ lm.limit = 0
    /\ Len(PageCalls) = MaxPages
    /\ PageCalls[MaxPages].req = "queryMore"
    /\ PageCalls[MaxPages].outcome = "ok"
    /\ lm.next_records_url = 0

-----------------------------------------------------------------------------
(* Properties of fetch_metadata_detail *)

\* the positions of the lookup queries in the transport log
LookupPositions == {i \in 1..Len(calls) : calls[i].req = "lookup"}

\* the lookup queries that returned a row
HitPositions == {i \in LookupPositions : calls[i].row # NoRecord}

\* the network calls C3 is about
GuardedRequests == {"describe", "query", "get", "lookup", "full"}

\* C3: a failure of the describe call or the first query of list_metadata, or of
\* the direct fetch, a lookup query or the full-record fetch of
\* fetch_metadata_detail, ends in the local recovery or in SalesforceAPIError:
\* no other exception leaves the operation, and the body that could not be
\* parsed is never handed back as the record.
C3_OnlySalesforceAPIError ==
    (pc = "done" /\ calls # <<>> /\ calls[Len(calls)].req \in GuardedRequests
       /\ calls[Len(calls)].outcome # "ok") =>
        /\ lm.raised \in {"", "SalesforceAPIError"}
        /\ fd.raised \in {"", "SalesforceAPIError"}
        /\ fd.returned => fd.target_record # TextBody

\* the candidate list as C4 states it
ExpectedCandidates ==
    LET id_field == Override(fd.metadata_type).id_field
    IN (IF fd.record_id # <<>> /\ id_field # ""
        THEN << <<id_field, fd.record_id>> >> ELSE <<>>)
       \o (IF fd.record_id # <<>>
           THEN << <<"Id", _to_18_char_id(fd.record_id)>> >> ELSE <<>>)
       \o (IF fd.api_name # <<>>
           THEN [k \in 1..Len(LookupFields(fd.metadata_type)) |->
                   <<LookupFields(fd.metadata_type)[k], fd.api_name>>]
           ELSE <<>>)

\* the place of a (field, value) pair in a candidate list (0: not in it)
CandidateIndex(candidates, pair) ==
    IF \E k \in 1..Len(candidates) : candidates[k] = pair
    THEN CHOOSE k \in 1..Len(candidates) :
            /\ candidates[k] = pair
            /\ \A m \in 1..(k - 1) : candidates[m] # pair
    ELSE 0

\* the lookup queries follow the order of the candidate list
C4_QueriesInCandidateOrder ==
    LET candidates == ExpectedCandidates
        place == [i \in LookupPositions |->
                    CandidateIndex(candidates, <<calls[i].field, calls[i].value>>)]
    IN \A i \in LookupPositions :
          /\ place[i] > 0
          /\ calls[i].lookup_value = LookupValue(calls[i].field, calls[i].value)
          /\ \A j \in LookupPositions : i < j => place[i] < place[j]

\* C4: the lookup queries are issued in the order of the candidate list, and a
\* later candidate is queried only after every earlier candidate was skipped,
\* failed or returned no row.
C4_FallbackOrder ==
    /\ C4_QueriesInCandidateOrder
    /\ \A i, j \in LookupPositions : i < j => calls[i].row = NoRecord

\* C5: resolution stops at the first lookup query that returns a row: no lookup
\* query follows it, and the record returned is what the fetch by that row's Id
\* gave or, if that fetch failed, that row itself.
C5_StopsAtFirstHit ==
    \A i \in HitPositions :
        /\ \A j \in LookupPositions : j <= i
        /\ (pc = "done" /\ fd.returned) =>
              \/ fd.target_record = calls[i].row
              \/ /\ i < Len(calls)
                 /\ calls[i + 1].req = "full"
                 /\ calls[i + 1].outcome # "http_error"
                 /\ calls[i + 1].outcome # "conn_error"
                 /\ fd.target_record = calls[i + 1].row

\* the direct GET by primary key was made and answered with a record
DirectFetchSucceeded ==
    calls # <<>> /\ calls[1].req = "get" /\ calls[1].outcome = "ok"

NothingResolved ==
    /\ pc = "done"
    /\ fd.metadata_type # ""
    /\ DetailPath(fd.metadata_type) = "generic"
    /\ ~(calls # <<>> /\ calls[1].req = "get"
         /\ calls[1].outcome \in {"ok", "bad_body"})
    /\ HitPositions = {}

\* C7: when the direct fetch fails or is not attempted and no fallback candidate
\* yields a row, fetch_metadata_detail raises and returns nothing; the error
\* carries the recorded direct-fetch error when there is one and is the generic
\* not-found error otherwise.  A report type asked for without record id and
\* name is refused in the same way.
C7_AllOrNothing ==
    /\ NothingResolved =>
          /\ ~fd.returned
          /\ fd.raised = "SalesforceAPIError"
          /\ fd.message = (IF fd.record_error THEN "direct_fetch_error" ELSE "not_found")
    /\ (pc = "done" /\ fd.metadata_type # "" /\ DetailPath(fd.metadata_type) = "custom"
          /\ fd.record_id = <<>> /\ fd.api_name = <<>>) =>
          /\ ~fd.returned
          /\ fd.raised = "SalesforceAPIError"


RECURSIVE ClosesLiteral(_)
ClosesLiteral(text) ==
    IF text = <<>> THEN FALSE
    ELSE IF text[1] = "\\" THEN Len(text) > 1 /\ ClosesLiteral(Tail(Tail(text)))
    ELSE text[1] = "'" \/ ClosesLiteral(Tail(text))

\* the texts embedded in the string literals of the queries sent so far: the
\* like values of the list queries and the lookup values of the detail lookups
EmbeddedTexts ==
    UNION {
        IF calls[i].req = "query"
        THEN {calls[i].soql.where[k].like_value :
                k \in {j \in 1..Len(calls[i].soql.where) :
                          calls[i].soql.where[j].kind = "like"}}
        ELSE IF calls[i].req = "lookup" THEN {calls[i].lookup_value}
        ELSE {} : i \in 1..Len(calls)}

\* C24: every string literal built from caller-supplied text, the name filter of
\* a list query and the lookup value of a detail lookup query, has each single
\* quote of the text escaped, so that the text never ends the literal.
C24_QuotesEscaped == \A text \in EmbeddedTexts : ~ClosesLiteral(text)

\* what the code does: in the like value of a list query every single quote
\* comes after a backslash that replace() put there
C24_NameFilterQuotesPrefixed ==
    \A i \in 1..Len(calls) :
        calls[i].req = "query" =>
            \A k \in 1..Len(calls[i].soql.where) :
                LET like_value == calls[i].soql.where[k].like_value
                IN \A c \in 1..Len(like_value) :
                       like_value[c] = "'" => (c > 1 /\ like_value[c - 1] = "\\")

\* the list query alone: a name filter without a backslash never ends its literal
C24_NameFilterWithoutBackslash ==
    (\A c \in 1..Len(lm.name_filter) : lm.name_filter[c] # "\\") =>
        \A i \in 1..Len(calls) :
            calls[i].req = "query" =>
                \A k \in 1..Len(calls[i].soql.where) :
                    ~ClosesLiteral(calls[i].soql.where[k].like_value)

\* the lookup queries of the detail call, in the order sent
Lookups == SelectSeq(calls, LAMBDA call : call.req = "lookup")

\* C25: the candidate loop skips empty values and (field, value) pairs already
\* tried, so within one detail call no lookup query is sent for a pair that was
\* already queried, also when the id field is Id and the raw id normalizes to
\* the value of the second candidate.
C25_NoLookupSentTwice ==
    /\ \A i \in 1..Len(Lookups) : Lookups[i].lookup_value # <<>>
    /\ \A i, j \in 1..Len(Lookups) :
           (i < j) => <<Lookups[i].field, Lookups[i].lookup_value>>
                        # <<Lookups[j].field, Lookups[j].lookup_value>>

\* what the code does: the pairs are compared before the value of an Id
\* candidate is normalized, so no two lookups come from the same raw pair
C25_NoCandidateTriedTwice ==
    /\ \A i \in 1..Len(Lookups) : Lookups[i].value # <<>>
    /\ \A i, j \in 1..Len(Lookups) :
           (i < j) => <<Lookups[i].field, Lookups[i].value>>
                        # <<Lookups[j].field, Lookups[j].value>>

\* the description of the associated object was asked for and did not succeed
DescriptionFailed ==
    /\ pc = "done"
    /\ calls # <<>>
    /\ calls[Len(calls)].req = "describe_object"
    /\ calls[Len(calls)].outcome # "ok"

\* the record of the result is a record a response of this call carried
RecordAsResolved ==
    \E i \in 1..Len(calls) :
        /\ calls[i].req \in {"get", "lookup", "full"}
        /\ calls[i].row # NoRecord
        /\ fd.target_record = calls[i].row

\* C26: once a record is resolved, a failure of the description of the associated
\* object never makes fetch_metadata_detail fail and never changes the record:
\* the detail is returned, only without the schema of the object.
C26_EnrichmentBestEffort ==
    DescriptionFailed =>
        /\ fd.returned
        /\ fd.raised = ""
        /\ fd.object # "schema"
        /\ RecordAsResolved

\* what the code does: the failure is swallowed when it is an error status,
\* which describe_sobject turns into SalesforceAPIError
C26_ErrorStatusSwallowed ==
    (DescriptionFailed /\ calls[Len(calls)].outcome = "http_error") =>
        /\ fd.returned
        /\ fd.raised = ""
        /\ fd.object = "None"
        /\ RecordAsResolved

-----------------------------------------------------------------------------
(* Properties of flatten_record *)

KeysOf(data) == {data.items[i][1] : i \in 1..Len(data.items)}

RECURSIVE HasSubquery(_)
\* a sub-query result is the record itself or lies on one of its relationship paths
HasSubquery(data) ==
    /\ data.t = "dict"
    /\ \/ IsSubqueryResult(data)
       \/ \E i \in 1..Len(data.items) :
             data.items[i][1] # "attributes" /\ HasSubquery(data.items[i][2])

RECURSIVE Leaves(_, _)
\* the (path, value) pairs of the values that are no mappings, attributes aside
Leaves(data, path) ==
    UNION { IF data.items[i][1] = "attributes" THEN {}
            ELSE IF data.items[i][2].t = "dict"
            THEN Leaves(data.items[i][2], Append(path, data.items[i][1]))
            ELSE { <<Append(path, data.items[i][1]), data.items[i][2]>> } :
            i \in 1..Len(data.items) }

RECURSIVE DotJoin(_)
DotJoin(path) ==
    IF Len(path) = 1 THEN path[1] ELSE path[1] \o "." \o DotJoin(Tail(path))

\* keys that could only come from inside the Contacts sub-query result
KeysFromSubRecords ==
    { "Contacts" \o rest : rest \in {".LastName", ".Owner", ".Owner.Name", ".attributes",
                                      ".records", ".totalSize", ".done",
                                      "..LastName", "..Owner", "..Owner.Name",
                                      "..records", "..totalSize", "..done"} }

\* C8: for a key K whose value is a sub-query result, the output maps that same
\* key K to a marker whose count is the value's totalSize and whose records is the
\* original list of sub-records, and no output key comes from inside the sub-records.
C8_SubqueryBoundary ==
    (pc # "idle" /\ HasKey(fr.record, "Contacts")) =>
        LET sub == Get(fr.record, "Contacts", Absent)
            marker == Get(fr.flat, "Contacts", Absent)
        IN /\ HasKey(fr.flat, "Contacts")
           /\ marker.t = "dict"
           /\ HasKey(sub, "totalSize") =>
                 Get(marker, "count", Absent) = Get(sub, "totalSize", Absent)
           /\ Get(marker, "records", Absent) = Get(sub, "records", Absent)
           /\ KeysOf(fr.flat) \cap KeysFromSubRecords = {}

\* what the code does there: the marker lies under the key followed by the separator
C8_MarkerUnderPrefix ==
    (pc # "idle" /\ HasKey(fr.record, "Contacts")) =>
        LET sub == Get(fr.record, "Contacts", Absent)
            marker == Get(fr.flat, "Contacts.", Absent)
        IN /\ ~HasKey(fr.flat, "Contacts")
           /\ marker.t = "dict"
           /\ HasKey(sub, "totalSize") =>
                 Get(marker, "count", Absent) = Get(sub, "totalSize", Absent)
           /\ Get(marker, "records", Absent) = Get(sub, "records", Absent)
           /\ KeysOf(fr.flat) \cap KeysFromSubRecords = {}

\* C9: for a record without sub-query values the output has exactly one entry per
\* leaf that is not under an attributes key, keyed by the dot-joined path from the
\* root to the leaf and holding the leaf's value, and no other entry.
C9_DotJoinedLeaves ==
    (pc # "idle" /\ ~HasSubquery(fr.record)) =>
        LET leaves == Leaves(fr.record, <<>>)
        IN /\ {fr.flat.items[i] : i \in 1..Len(fr.flat.items)}
                = { <<DotJoin(leaf[1]), leaf[2]>> : leaf \in leaves }
           /\ Len(fr.flat.items) = Cardinality(leaves)

C9_Witness ==
    /\ pc # "idle"
    /\ fr.record = Dict(<< <<"Name", Scalar("A")>>,
                           <<"Parent", Dict(<< <<"Name", Scalar("B")>> >>)>> >>)
    /\ fr.flat = Dict(<< <<"Name", Scalar("A")>>, <<"Parent.Name", Scalar("B")>> >>)

\* C10 as stated: flattening a flattened record changes nothing, for every record
C10_Idempotent ==
    pc = "done" => fr.again = fr.flat

\* C10: for every record without a sub-query result on its relationship paths,
\* flatten_record(flatten_record(r)) equals flatten_record(r).
C10_IdempotentWithoutSubquery ==
    (pc = "done" /\ ~HasSubquery(fr.record)) => fr.again = fr.flat

C10_Witness ==
    /\ pc = "done"
    /\ ~HasSubquery(fr.record)
    /\ HasKey(fr.record, "attributes")
    /\ HasKey(fr.flat, "Parent.Parent.Name")
    /\ fr.again = fr.flat

\* C11: a top-level attributes entry of the input is, verbatim and under the key
\* attributes, in the flattened record every caller (display, query_more, CSV
\* export) goes on with; attributes of nested records give no output key.
C11_AttributesPreserved ==
    pc # "idle" =>
        /\ HasKey(fr.record, "attributes") =>
              /\ HasKey(fr.handed, "attributes")
              /\ Get(fr.handed, "attributes", Absent) = Get(fr.record, "attributes", Absent)
        /\ \A key \in KeysOf(fr.handed) :
              \A prefix \in {"Parent", "Parent.Parent", "Contacts", "Contacts."} :
                 key # prefix \o ".attributes"

\* what the code does there: the entry is in the record of the two views that put
\* it back, and in no record that flatten_record or the CSV export produce
C11_AttributesRestoredByView ==
    (pc # "idle" /\ HasKey(fr.record, "attributes")) =>
        /\ ~HasKey(fr.flat, "attributes")
        /\ HasKey(fr.handed, "attributes") <=> RestoresAttributes(fr.caller)
        /\ RestoresAttributes(fr.caller) =>
              Get(fr.handed, "attributes", Absent) = Get(fr.record, "attributes", Absent)

-----------------------------------------------------------------------------
(* Properties of _to_18_char_id *)

\* C16: for every text whose length is not 15 the normalizer, in either copy,
\* returns the text unchanged.
C16_OtherLengthsUnchanged ==
    (nid.applied /\ Len(nid.sf_id) # 15) =>
        /\ nid.result = nid.sf_id
        /\ nid.views_result = nid.sf_id

\* a text one character longer than an identifier comes back as it was
C16_Witness ==
    /\ nid.applied
    /\ Len(nid.sf_id) = 16
    /\ nid.result = nid.sf_id
    /\ nid.views_result = nid.sf_id

\* the symbols of the checksum: A-Z followed by 0-5
ChecksumSymbols ==
    <<"A", "B", "C", "D", "E", "F", "G", "H", "I", "J", "K", "L", "M", "N", "O", "P",
      "Q", "R", "S", "T", "U", "V", "W", "X", "Y", "Z", "0", "1", "2", "3", "4", "5">>

\* bit i of the number b
BitSet(b, i) == (b \div Pow2(i)) % 2 = 1

\* C17: for every 15-character identifier the normalizer returns the 15
\* characters followed by exactly 3 checksum characters; the j-th is the symbol
\* at index b_j of A-Z0-5, bit i of b_j being set iff character i of the j-th
\* 5-character chunk is an upper-case ASCII letter; the same input always gives
\* the same output.
C17_ChecksumAppended ==
    (nid.applied /\ Len(nid.sf_id) = 15) =>
        /\ Len(nid.result) = 18
        /\ SubSeq(nid.result, 1, 15) = nid.sf_id
        /\ \A j \in 1..3 :
              \E b \in 0..31 :
                 /\ nid.result[15 + j] = ChecksumSymbols[b + 1]
                 /\ \A i \in 0..4 :
                       BitSet(b, i) <=> nid.sf_id[5 * (j - 1) + i + 1] \in UpperCase
        /\ nid.result = _to_18_char_id(nid.sf_id)
        /\ nid.views_result = nid.result

\* chunks with bits 10, 18 and 31: the checksum is K, S, 5
C17_Witness ==
    /\ nid.applied
    /\ nid.sf_id = <<"a", "B", "a", "B", "a", "a", "Z", "@", "[", "A",
                     "Z", "Z", "Z", "Z", "Z">>
    /\ nid.result = nid.sf_id \o <<"K", "S", "5">>

\* C18: normalizing what the normalizer returned changes nothing, for every text.
C18_Idempotent ==
    (nid.applied /\ pc = "done") => nid.again = nid.result

\* a 15-character identifier, made 18 characters long and then left alone
C18_Witness ==
    /\ nid.applied
    /\ pc = "done"
    /\ Len(nid.sf_id) = 15
    /\ Len(nid.result) = 18
    /\ nid.again = nid.result

-----------------------------------------------------------------------------
(* Properties of the data views *)

\* the records whose remote call was made and returned
Succeeded == {i \in 1..Len(dv.tried) : dv.tried[i].called /\ dv.tried[i].outcome = "ok"}

-----------------------------------------------------------------------------
(* Properties of the session middleware *)

\* the request just answered went to a path that is not exempt, from a
\* session that held sf_connection_id
GatedRequest ==
    /\ mw.last.kind = "request"
    /\ ~IsExempt(mw.last.path)
    /\ mw.last.held # 0

\* the row under the held id was past its expires_at when the request came
WasExpired ==
    /\ mw.last.before.row = "stored"
    /\ mw.last.before.expires_at # <<>>
    /\ mw.last.now > mw.last.before.expires_at[1]

\* an active row was stored under the held id when the request came
WasActive ==
    /\ mw.last.before.row = "stored"
    /\ mw.last.before.is_active

\* C30: through any sequence of requests, a request to a non-exempt path whose
\* session holds sf_connection_id reaches its view only if a connection with
\* that id exists, is active and is not expired; when the connection is
\* expired it is marked inactive, the key is removed from the session and the
\* request is redirected to login; when no active connection has that id the
\* key is removed and the request is redirected to login.
C30_SessionGate ==
    GatedRequest =>
        /\ mw.last.response = "view" => WasActive /\ ~WasExpired
        /\ WasExpired =>
              /\ ~mw.connections[mw.last.held].is_active
              /\ mw.session[mw.last.session] = 0
              /\ mw.last.response = "redirect"
        /\ ~WasActive =>
              /\ mw.session[mw.last.session] = 0
              /\ mw.last.response = "redirect"

\* a session whose active connection ran out asked for a page: the connection
\* was made inactive and the request sent to login, while the other session
\* still holds the same id
C30_Witness ==
    /\ GatedRequest
    /\ WasActive /\ WasExpired
    /\ mw.last.response = "redirect"
    /\ ~mw.connections[mw.last.held].is_active
    /\ \E s \in Sessions : mw.session[s] = mw.last.held

\* a session with an active connection that has not run out reached its view
C30_ViewReached ==
    /\ GatedRequest
    /\ mw.last.response = "view"
    /\ mw.last.sf_connection = mw.last.held

====
